---- MODULE Spec2Model ----
(***************************************************************************)
(* Task-session core of the eigent backend: the session registry           *)
(* (task_locks), the per-session TaskLock (queue, human-input channels,    *)
(* background tasks, toolkits, history), the SSE delivery wrapper          *)
(* (timeout_stream_wrapper) and the teardown path (delete_task_lock).      *)
(***************************************************************************)
EXTENDS Integers, Sequences, FiniteSets, TLC

(* ------------------------------ bounds --------------------------------- *)
MaxLocks == 2       \* TaskLock objects ever constructed
MaxPuts == 2        \* put_queue calls, over all TaskLocks
MaxTasks == 2       \* background asyncio tasks ever spawned
MaxStreams == 2     \* SSE streams ever opened
MaxEngines == 1     \* direct delete_task_lock calls (engine drive loop)
MaxChans == 2       \* human-input asyncio.Queue(1) objects ever constructed
MaxPutters == 2     \* put_human_input calls that had to wait
MaxReplies == 2     \* replies accepted by one channel
MaxHist == 1        \* conversation_history entries, over all TaskLocks
MaxEvents == 2      \* events one stream delivers
MaxRegs == 3        \* register_toolkit calls on one TaskLock
MaxTime == 9        \* clock ticks
MaxHistory == 3     \* conversation_history entries of one TaskLock
MaxFlows == 3       \* OAuth authorization flows ever started

(* --------------------------- program constants ------------------------- *)
SSE_TIMEOUT_SECONDS == 3600
QueueMaxsize == 1
TickSeconds == SSE_TIMEOUT_SECONDS \div 2
STALE_TIMEOUT_SECONDS == 14400   \* timedelta(hours=4)

Ids == {"s1", "s2"}
OneId == {"s1"}         \* the session of the single-session specifications
TaskIds == {"t1"}       \* task ids of POST /chat
NewTaskIds == {"", "t2"}  \* task ids of an improve request ("" = none given)
Agents == {"a1"}
Replies == {"r1", "r2"}
Toolkits == {"k1", "k2"}
Roles == {"user", "assistant"}   \* role of a conversation_history entry
EventNames == <<"e1", "e2", "e3", "e4">>   \* the events of a stream, in production order
NoLock == 0
NoChan == 0
NoTask == 0
NoPath == [proj |-> "", task |-> "", sub |-> ""]
NoRet == <<>>           \* a call that returns nothing of interest
NoState == 0            \* no OAuthState under a key
\* project ids of OAuth flows, as their characters: "p" and "p:q"
OAuthProjects == {<<"p">>, <<"p", ":", "q">>}
OAuthProviders == {"google_calendar"}
NoSweep == [ids |-> <<>>, del |-> 0]   \* _periodic_cleanup in its sleep

\* Chat.creds_params["search"]: values supplied with the request ("" = key absent)
NoCreds == [google_api_key |-> "", search_engine_id |-> "", cloud_api_key |-> ""]
SessionCreds ==
    {NoCreds,
     [google_api_key |-> "s", search_engine_id |-> "s", cloud_api_key |-> ""],
     [google_api_key |-> "s", search_engine_id |-> "", cloud_api_key |-> ""],
     [google_api_key |-> "", search_engine_id |-> "", cloud_api_key |-> "s"]}
\* the search variables of the process environment ("" = unset)
NoEnv == [GOOGLE_API_KEY |-> "", SEARCH_ENGINE_ID |-> "", CLOUD_API_KEY |-> ""]
Environs ==
    {NoEnv,
     [GOOGLE_API_KEY |-> "e", SEARCH_ENGINE_ID |-> "e", CLOUD_API_KEY |-> ""],
     [GOOGLE_API_KEY |-> "", SEARCH_ENGINE_ID |-> "e", CLOUD_API_KEY |-> ""],
     [GOOGLE_API_KEY |-> "", SEARCH_ENGINE_ID |-> "", CLOUD_API_KEY |-> "e"]}
\* attachment names, as their segments between "/" ; <<>> is the empty name
AttachNames ==
    {<<"f">>, <<"..", "..", "etc", "passwd">>, <<"..", "f">>, <<"..">>, <<".">>,
     <<"d", "..">>, <<"/", "etc", "passwd">>, <<"camel_logs">>, <<>>}
\* the fields of a Chat request that the session keeps
PlainChat == [creds_params |-> NoCreds, attaches |-> <<>>]
OnePlainChat == {PlainChat}
ChatsWithCreds == {[creds_params |-> c, attaches |-> <<>>] : c \in SessionCreds}
ChatsWithAttaches == {PlainChat} \cup
    {[creds_params |-> NoCreds, attaches |-> <<n>>] : n \in AttachNames}

VARIABLES
    task_locks,   \* registry: session id -> TaskLock reference (NoLock = absent)
    locks,        \* heap of TaskLock objects, a reference is an index
    chans,        \* heap of human-input queues
    tasks,        \* heap of background asyncio tasks
    streams,      \* timeout_stream_wrapper generators
    putters,      \* put_human_input calls suspended on a full channel
    fs,           \* directories that exist on disk
    oauth,        \* project ids that own OAuth state
    dels,         \* activations of delete_task_lock
    cleanups,     \* toolkit -> number of cleanup() calls it has received
    now,          \* wall clock, in ticks of TickSeconds
    resp,         \* the exception (or empty answer) of the call made in the last step
    environ,      \* os.environ, the process-wide environment
    sweep,        \* _periodic_cleanup: the stale ids still to delete, its current delete
    oauth_states, \* OAuthStateManager._states: key -> OAuthState reference
    oauth_flows   \* heap of OAuthState objects, each with the thread of its flow

vars == <<task_locks, locks, chans, tasks, streams, putters, fs, oauth, dels, cleanups, now,
         resp, environ, sweep, oauth_states, oauth_flows>>

Refs == 1..Len(locks)
Live(id) == task_locks[id] # NoLock

(* ------------------------------ paths ---------------------------------- *)
\* Chat.file_save_path(): <base>/projects/project_<id>/task_<task>
file_save_path(id, t) == [proj |-> id, task |-> t, sub |-> ""]
SubDir(p, name) == [p EXCEPT !.sub = name]
\* <base>/projects/project_<id>, the directory tree keyed by the session id
ProjectDir(id) == [proj |-> id, task |-> "", sub |-> ""]
\* Path.mkdir(parents=True, exist_ok=True): p and its parents
mkdir(dirs, p) == dirs \cup {p, SubDir(p, ""), ProjectDir(p.proj)}
\* shutil.rmtree(p): p and everything below it
rmtree(dirs, p) ==
    IF p.task = "" THEN {d \in dirs : d.proj # p.proj}
    ELSE IF p.sub = "" THEN {d \in dirs : ~(d.proj = p.proj /\ d.task = p.task)}
    ELSE dirs \ {p}
is_dir(dirs, p) == p \in dirs

\* a path as the segments of its absolute form, below the server-owned root "/"
PathSegs(p) ==
    <<"/", "projects", p.proj>> \o (IF p.task = "" THEN <<>> ELSE <<p.task>>)
                                \o (IF p.sub = "" THEN <<>> ELSE <<p.sub>>)
DirExists(dirs, segs) ==
    segs \in {<<"/">>, <<"/", "projects">>} \cup {PathSegs(d) : d \in dirs}
Parent(segs) == IF Len(segs) <= 1 THEN segs ELSE SubSeq(segs, 1, Len(segs) - 1)

IsPart(seg) == seg \notin {".", ""}
\* PurePath(name).name: the last part of the name, "" when the name has no
\* part or only its root; "." segments are no parts, ".." is one
PathName(name) ==
    LET ps == SelectSeq(name, IsPart) IN
    IF ps = <<>> \/ ps[Len(ps)] = "/" THEN "" ELSE ps[Len(ps)]

RECURSIVE walk(_, _)
\* where the file system arrives from directory dir along the segments segs
walk(dir, segs) ==
    IF segs = <<>> THEN dir
    ELSE LET h == Head(segs) IN
         walk(IF h = "/" THEN <<"/">>
              ELSE IF h = ".." THEN Parent(dir)
              ELSE IF ~IsPart(h) THEN dir
              ELSE Append(dir, h),
              Tail(segs))

safe_name_whole(name) == name

\* safe_name = Path(name).name, the segments joined to task_root
safe_name(name) == <<PathName(name)>>

\* file_path = task_root / safe_name ; file_path.write_bytes(content):
\* the file written, or <<>> when write_bytes raises (no parent directory,
\* or the target is a directory), which post logs and skips
write_attach(dirs, task_root, name) ==
    LET f == walk(PathSegs(task_root), safe_name(name)) IN
    IF DirExists(dirs, Parent(f)) /\ ~DirExists(dirs, f) THEN f ELSE <<>>

\* the loop of post over data.attaches: the paths of the files written
RECURSIVE save_attaches(_, _, _)
save_attaches(dirs, task_root, attaches) ==
    IF attaches = <<>> THEN <<>>
    ELSE LET f == IF Head(attaches) = <<>> THEN <<>>
                  ELSE write_attach(dirs, task_root, Head(attaches))
         IN (IF f = <<>> THEN <<>> ELSE <<f>>)
            \o save_attaches(dirs, task_root, Tail(attaches))

(* ------------------------------ TaskLock ------------------------------- *)
\* TaskLock.__init__ ; nput/got/rmtrees/regs are history variables
TaskLock(id) ==
    [id |-> id, status |-> "confirming", queue |-> <<>>,
     human_input |-> [a \in Agents |-> NoChan],
     created_at |-> now, last_accessed |-> now,
     background_tasks |-> {}, registered_toolkits |-> <<>>,
     conversation_history |-> <<>>, last_task_result |-> "",
     file_save_path |-> NoPath, new_folder_path |-> NoPath,
     creds_params |-> NoCreds, attached_file_paths |-> <<>>,
     nput |-> 0, got |-> <<>>, rmtrees |-> 0, regs |-> 0]

\* an action addressed to session id, about to be put on lock record L
Item(kind, id, L) == [action |-> kind, to |-> id, n |-> L.nput + 1]

put_queue_lifo(L, data) ==
    [L EXCEPT !.last_accessed = now, !.queue = <<data>> \o @, !.nput = @ + 1]

put_queue_norefresh(L, data) ==
    [L EXCEPT !.queue = Append(@, data), !.nput = @ + 1]

put_queue(L, data) ==
    [L EXCEPT !.last_accessed = now, !.queue = Append(@, data), !.nput = @ + 1]

get_queue(L) ==
    [L EXCEPT !.last_accessed = now, !.queue = Tail(@), !.got = Append(@, Head(L.queue))]

add_conversation_first(L, role, content) ==
    [L EXCEPT !.conversation_history = <<[role |-> role, content |-> content]>> \o @]

add_conversation(L, role, content) ==
    [L EXCEPT !.conversation_history = Append(@, [role |-> role, content |-> content])]

RECURSIVE SumOver(_, _)
SumOver(f, n) == IF n = 0 THEN 0 ELSE f[n] + SumOver(f, n - 1)

\* put_queue calls made so far or promised by a task that has not run yet
PutsMade ==
    SumOver([r \in Refs |-> locks[r].nput], Len(locks))
    + Cardinality({t \in 1..Len(tasks) :
                      tasks[t].state \in {"pending", "cancelling"}})
PutBudget == PutsMade < MaxPuts
HistBudget ==
    SumOver([r \in Refs |-> Len(locks[r].conversation_history)], Len(locks)) < MaxHist

(* ------------------------------ registry ------------------------------- *)
get_task_lock_any(id) ==
    IF \E i \in Ids : Live(i)
    THEN [exc |-> "none", ret |-> task_locks[CHOOSE i \in Ids : Live(i)]]
    ELSE [exc |-> "Task not found", ret |-> NoLock]

get_task_lock(id) ==
    IF ~Live(id) THEN [exc |-> "Task not found", ret |-> NoLock]
    ELSE [exc |-> "none", ret |-> task_locks[id]]

get_task_lock_if_exists(id) == task_locks[id]

create_task_lock_overwrite(id) ==
    [exc |-> "none", ret |-> Len(locks) + 1,
     task_locks |-> [task_locks EXCEPT ![id] = Len(locks) + 1],
     locks |-> Append(locks, TaskLock(id))]

create_task_lock(id) ==
    IF Live(id)
    THEN [exc |-> "Task already exists", ret |-> NoLock,
          task_locks |-> task_locks, locks |-> locks]
    ELSE [exc |-> "none", ret |-> Len(locks) + 1,
          task_locks |-> [task_locks EXCEPT ![id] = Len(locks) + 1],
          locks |-> Append(locks, TaskLock(id))]

get_or_create_always_create(id) == create_task_lock(id)

get_or_create_task_lock(id) ==
    IF Live(id)
    THEN [exc |-> "none", ret |-> task_locks[id],
          task_locks |-> task_locks, locks |-> locks]
    ELSE create_task_lock(id)

(* ------------------------------ OAuth state --------------------------- *)
\* _state_key: f"{project_id}:{provider}"
state_key(project_id, provider) == project_id \o <<":", provider>>

OAuthKeys == {state_key(p, pr) : p \in OAuthProjects, pr \in OAuthProviders}

\* str.startswith
startswith(k, prefix) == Len(prefix) <= Len(k) /\ SubSeq(k, 1, Len(prefix)) = prefix

\* OAuthState.__init__ ; cancelled is _cancel_event, project and pc belong to
\* the thread that start_background_auth starts for the state
OAuthState(provider, project_id) ==
    [provider |-> provider, status |-> "pending", error |-> "", result |-> "",
     cancelled |-> FALSE, project |-> project_id, pc |-> "start"]

\* OAuthState.cancel()
cancel(S) == [S EXCEPT !.cancelled = TRUE, !.status = "cancelled"]

Active(S) == S.status \in {"pending", "authorizing"}

\* OAuthStateManager.create_state(provider, project_id)
OAuthStateManager_create_state(sts, fls, provider, project_id) ==
    LET key == state_key(project_id, provider)
        old == sts[key]
        fls1 == IF old # NoState /\ Active(fls[old])
                THEN [fls EXCEPT ![old] = cancel(@)] ELSE fls
    IN [states |-> [sts EXCEPT ![key] = Len(fls) + 1],
        flows |-> Append(fls1, OAuthState(provider, project_id))]

\* OAuthStateManager.update_status(provider, status, project_id, error, result)
OAuthStateManager_update_status(sts, fls, provider, status, project_id, error, result) ==
    LET key == state_key(project_id, provider) IN
    IF sts[key] # NoState
    THEN [fls EXCEPT ![sts[key]].status = status, ![sts[key]].error = error,
                     ![sts[key]].result = result]
    ELSE fls

\* OAuthStateManager.clear_project(project_id)
OAuthStateManager_clear_project(sts, fls, project_id) ==
    LET to_remove == {k \in OAuthKeys :
                         sts[k] # NoState /\ startswith(k, project_id \o <<":">>)}
    IN [states |-> [k \in OAuthKeys |-> IF k \in to_remove THEN NoState ELSE sts[k]],
        flows |-> [f \in 1..Len(fls) |->
                      IF (\E k \in to_remove : sts[k] = f) /\ Active(fls[f])
                      THEN cancel(fls[f]) ELSE fls[f]]]

(* ------------------------------ Init ----------------------------------- *)
\* the server after start-up, apart from its environment
InitSessions ==
    /\ task_locks = [i \in Ids |-> NoLock]
    /\ locks = <<>>
    /\ chans = <<>>
    /\ tasks = <<>>
    /\ streams = <<>>
    /\ dels = <<>>
    /\ cleanups = [k \in Toolkits |-> 0]
    /\ putters = <<>>
    /\ fs = {}
    /\ oauth = {}
    /\ now = 0
    /\ resp = [op |-> "none", id |-> "", exc |-> "none", code |-> 0, ret |-> NoRet]
    /\ sweep = NoSweep
    /\ oauth_states = [k \in OAuthKeys |-> NoState]
    /\ oauth_flows = <<>>

\* a server started with no search variable in its environment
Init == InitSessions /\ environ = NoEnv

\* a server started by an operator with any of the environments
InitEnviron == InitSessions /\ environ \in Environs

Resp(op, id, exc, code) ==
    [op |-> op, id |-> id, exc |-> exc, code |-> code, ret |-> NoRet]
\* a call that returned ret
Returned(op, id, ret) == [Resp(op, id, "none", 0) EXCEPT !.ret = ret]
\* only a call that raised, or that answered without acting, is recorded
NoResp == Resp("none", "", "none", 0)

(* ------------------------- registry operations ------------------------- *)
\* a direct call of create_task_lock(id)
CreateTaskLock(id) ==
    LET r == create_task_lock(id) IN
    /\ Len(locks) < MaxLocks \/ r.exc # "none"
    /\ task_locks' = r.task_locks
    /\ locks' = r.locks
    /\ resp' = IF r.exc = "none" THEN NoResp ELSE Resp("create_task_lock", id, r.exc, 0)
    /\ UNCHANGED <<chans, tasks, streams, putters, fs, oauth, dels, cleanups, now, environ, sweep, oauth_states, oauth_flows>>

(* ------------------------- HTTP handlers (chat) ------------------------ *)
NewStream(L) ==
    [lock |-> L, pc |-> "wait", cleanup_triggered |-> FALSE, last_data_time |-> now,
     out |-> <<>>, calls |-> 0, reason |-> "", gone |-> FALSE,
     made |-> 0, delivered_at |-> now]

\* POST /chat
post(id, t, data) ==
    LET r == get_or_create_task_lock(id)
        L == r.ret
        root == file_save_path(id, t)
        dirs == mkdir(fs, SubDir(root, "camel_logs"))
        lk1 == [r.locks[L] EXCEPT
                   !.file_save_path = root,
                   !.creds_params = data.creds_params,
                   !.attached_file_paths = save_attaches(dirs, root, data.attaches)]
    IN
    /\ Len(locks) < MaxLocks \/ Live(id)
    /\ Len(streams) < MaxStreams
    /\ PutBudget
    /\ IF r.exc # "none"
       THEN /\ resp' = Resp("post", id, r.exc, 0)
            /\ UNCHANGED <<task_locks, fs, locks, streams>>
       ELSE /\ task_locks' = r.task_locks
            /\ fs' = dirs
            /\ locks' = [r.locks EXCEPT ![L] = put_queue(lk1, Item("improve", id, lk1))]
            /\ streams' = Append(streams, NewStream(L))
            /\ resp' = NoResp
    /\ UNCHANGED <<chans, tasks, putters, oauth, dels, cleanups, now, environ, sweep, oauth_states, oauth_flows>>

improve_lock_reset(L, id, t) ==
    LET a == IF L.status = "done"
             THEN [L EXCEPT !.status = "confirming", !.background_tasks = {},
                            !.conversation_history = <<>>, !.last_task_result = ""]
             ELSE L
        b == IF t # "" /\ id # ""
             THEN [a EXCEPT !.new_folder_path = file_save_path(id, t)]
             ELSE a
    IN put_queue(b, Item("improve", id, b))

improve_lock_processing(L, id, t) ==
    LET a == IF L.status = "done"
             THEN [L EXCEPT !.status = "processing", !.background_tasks = {}]
             ELSE L
        b == IF t # "" /\ id # ""
             THEN [a EXCEPT !.new_folder_path = file_save_path(id, t)]
             ELSE a
    IN put_queue(b, Item("improve", id, b))

\* the body of improve once the TaskLock is found; t = "" is "no task_id"
improve_lock(L, id, t) ==
    LET a == IF L.status = "done"
             THEN [L EXCEPT !.status = "confirming", !.background_tasks = {}]
             ELSE L
        b == IF t # "" /\ id # ""
             THEN [a EXCEPT !.new_folder_path = file_save_path(id, t)]
             ELSE a
    IN put_queue(b, Item("improve", id, b))

\* try: get_task_lock(id) / except KeyError: raise HTTPException(404);
\* any other exception of the lookup propagates to the caller
lookup(id) ==
    LET g == get_task_lock(id) IN
    IF g.exc = "KeyError" THEN [exc |-> "HTTPException", code |-> 404, ret |-> NoLock]
    ELSE [exc |-> g.exc, code |-> 0, ret |-> g.ret]

\* what a handler leaves behind: the exception it raised or the status code
\* of its Response, and the TaskLocks and directories after it
Raised(exc, code) == [exc |-> exc, code |-> code, locks |-> locks, fs |-> fs]
Answered(code, lks, dirs) == [exc |-> "none", code |-> code, locks |-> lks, fs |-> dirs]

\* a handler that acted within the bound on put_queue calls
Handled(op, id, r) ==
    /\ (r.locks # locks) => PutBudget
    /\ locks' = r.locks
    /\ fs' = r.fs
    /\ resp' = Resp(op, id, r.exc, r.code)
    /\ UNCHANGED <<task_locks, chans, tasks, streams, putters, oauth, dels, cleanups, now, environ, sweep, oauth_states, oauth_flows>>

improve_reject_done(id, t) ==
    LET g == lookup(id) IN
    IF g.exc # "none" THEN Raised(g.exc, g.code)
    ELSE IF locks[g.ret].status = "done" THEN Raised("UserException", 0)
    ELSE Answered(201, [locks EXCEPT ![g.ret] = improve_lock(locks[g.ret], id, t)],
                  IF t # "" /\ id # "" THEN mkdir(fs, file_save_path(id, t)) ELSE fs)

improve_result_shared(id, t) ==
    LET g == lookup(id) IN
    IF g.exc # "none" THEN Raised(g.exc, g.code)
    ELSE Answered(201,
                  [r \in Refs |->
                      IF r = g.ret THEN improve_lock(locks[r], id, t)
                      ELSE IF t # "" /\ id # ""
                      THEN [locks[r] EXCEPT !.new_folder_path = file_save_path(id, t)]
                      ELSE locks[r]],
                  IF t # "" /\ id # "" THEN mkdir(fs, file_save_path(id, t)) ELSE fs)

\* POST /chat/{id}
improve_result(id, t) ==
    LET g == lookup(id) IN
    IF g.exc # "none" THEN Raised(g.exc, g.code)
    ELSE Answered(201, [locks EXCEPT ![g.ret] = improve_lock(locks[g.ret], id, t)],
                  IF t # "" /\ id # "" THEN mkdir(fs, file_save_path(id, t)) ELSE fs)

improve(id, t) == Handled("improve", id, improve_result(id, t))

supplement_any_status(id) ==
    LET g == lookup(id) IN
    IF g.exc # "none" THEN Raised(g.exc, g.code)
    ELSE Answered(201, [locks EXCEPT
                  ![g.ret] = put_queue(@, Item("supplement", id, locks[g.ret]))], fs)

\* PUT /chat/{id}
supplement_result(id) ==
    LET g == lookup(id) IN
    IF g.exc # "none" THEN Raised(g.exc, g.code)
    ELSE IF locks[g.ret].status # "done" THEN Raised("UserException", 0)
    ELSE Answered(201, [locks EXCEPT
                  ![g.ret] = put_queue(@, Item("supplement", id, locks[g.ret]))], fs)

supplement(id) == Handled("supplement", id, supplement_result(id))

stop_raise(id) ==
    LET g == get_task_lock(id) IN
    IF g.exc # "none" THEN Raised(g.exc, 0)
    ELSE Answered(204, [locks EXCEPT
                  ![g.ret] = put_queue(@, Item("stop", id, locks[g.ret]))], fs)

\* DELETE /chat/{id}: the lookup and the put are inside try/except Exception
stop_result(id) ==
    LET g == get_task_lock(id) IN
    IF g.exc # "none" THEN Answered(204, locks, fs)
    ELSE Answered(204, [locks EXCEPT
                  ![g.ret] = put_queue(@, Item("stop", id, locks[g.ret]))], fs)

stop(id) == Handled("stop", id, stop_result(id))

put_action_preempt(kind, id, okcode) ==
    LET g == lookup(id) IN
    IF g.exc # "none" THEN Raised(g.exc, g.code)
    ELSE Answered(okcode, [locks EXCEPT
                  ![g.ret] = [put_queue(@, Item(kind, id, locks[g.ret]))
                                 EXCEPT !.status = "done"]], fs)

\* the handlers that look the TaskLock up and put one action on its queue;
\* add_task, remove_task and skip_task turn an exception of the put into a
\* UserException, and a put on the unbounded queue raises none
put_action_result(kind, id, okcode) ==
    LET g == lookup(id) IN
    IF g.exc # "none" THEN Raised(g.exc, g.code)
    ELSE Answered(okcode, [locks EXCEPT
                  ![g.ret] = put_queue(@, Item(kind, id, locks[g.ret]))], fs)

\* POST /chat/{id}/install-mcp
install_mcp(id) == Handled("install_mcp", id, put_action_result("install_mcp", id, 201))
\* POST /chat/{id}/add-task
add_task(id) == Handled("add_task", id, put_action_result("add_task", id, 201))
\* DELETE /chat/{project_id}/remove-task/{task_id}
remove_task(id) == Handled("remove_task", id, put_action_result("remove_task", id, 204))
\* POST /chat/{project_id}/skip-task
skip_task(id) == Handled("skip_task", id, put_action_result("skip_task", id, 201))

(* ------------------------- HTTP handlers (task) ------------------------ *)
\* the task endpoints: get_task_lock(id), not inside any try, and one put
task_put_result(kind, id, okcode) ==
    LET g == get_task_lock(id) IN
    IF g.exc # "none" THEN Raised(g.exc, 0)
    ELSE Answered(okcode, [locks EXCEPT
                  ![g.ret] = put_queue(@, Item(kind, id, locks[g.ret]))], fs)

\* POST /task/{id}/start
start(id) == Handled("start", id, task_put_result("start", id, 201))
\* PUT /task/{id}
put(id) == Handled("put", id, task_put_result("update_task", id, 201))
\* PUT /task/{id}/take-control ; action is Action.pause or Action.resume
take_control(id, action) ==
    Handled("take_control", id, task_put_result(action, id, 204))
\* POST /task/{id}/add-agent
add_agent(id) == Handled("add_agent", id, task_put_result("new_agent", id, 204))

\* DELETE /task/stop-all: one ActionStopData on every registered TaskLock
stop_all ==
    LET live == {task_locks[i] : i \in {j \in Ids : Live(j)}} IN
    /\ PutsMade + Cardinality(live) <= MaxPuts
    /\ locks' = [r \in Refs |->
                    IF r \in live THEN put_queue(locks[r], Item("stop", locks[r].id, locks[r]))
                    ELSE locks[r]]
    /\ resp' = Resp("stop_all", "", "none", 204)
    /\ UNCHANGED <<task_locks, chans, tasks, streams, putters, fs, oauth, dels, cleanups,
                   now, environ, sweep, oauth_states, oauth_flows>>

(* -------------------------- working directory ------------------------- *)
working_directory_path_first(L) ==
    IF L.file_save_path # NoPath THEN L.file_save_path
    ELSE IF L.new_folder_path # NoPath THEN L.new_folder_path
    ELSE NoPath

\* get_working_directory_from_task_lock(task_lock); NoPath is None
get_working_directory_from_task_lock(L) ==
    IF L.new_folder_path # NoPath THEN L.new_folder_path
    ELSE IF L.file_save_path # NoPath THEN L.file_save_path
    ELSE NoPath

\* get_working_directory(options) for the Chat of project id and task t
get_working_directory_result(id, t) ==
    LET L == get_task_lock_if_exists(id) IN
    IF L # NoLock /\ locks[L].new_folder_path # NoPath THEN locks[L].new_folder_path
    ELSE file_save_path(id, t)

\* the engine of the chat (id, t) resolves its working directory
get_working_directory(id, t) ==
    /\ resp' = Returned("get_working_directory", id,
                        [options |-> t, dir |-> get_working_directory_result(id, t)])
    /\ UNCHANGED <<task_locks, locks, chans, tasks, streams, putters, fs, oauth, dels,
                   cleanups, now, environ, sweep, oauth_states, oauth_flows>>

\* a listen_toolkit wrapper resolves the working directory of the TaskLock
\* it holds, to report the files that the tool changed
changed_files_directory(L) ==
    /\ resp' = Returned("get_working_directory_from_task_lock", locks[L].id,
                        [lock |-> L,
                         dir |-> get_working_directory_from_task_lock(locks[L])])
    /\ UNCHANGED <<task_locks, locks, chans, tasks, streams, putters, fs, oauth, dels,
                   cleanups, now, environ, sweep, oauth_states, oauth_flows>>

(* ------------------------------ credentials ---------------------------- *)
\* Python's `a or b` on two strings
Or(a, b) == IF a # "" THEN a ELSE b

\* SearchToolkit._get_search_params() of a toolkit of session id
get_search_params(id) ==
    LET L == get_task_lock_if_exists(id) IN
    IF L = NoLock THEN NoCreds ELSE locks[L].creds_params

ValueError == [route |-> "ValueError", key |-> "", cx |-> ""]

\* cloud_search_google: the proxy request, with the cloud_api_key of the
\* session's parameters (the server URL is configured)
cloud_search_google(params) ==
    IF params.cloud_api_key = "" THEN ValueError
    ELSE [route |-> "cloud", key |-> params.cloud_api_key, cx |-> ""]

\* search_google: the request it makes and the credentials it sends
search_google_result(params, env) ==
    LET google_api_key == Or(params.google_api_key, env.GOOGLE_API_KEY)
        search_engine_id == Or(params.search_engine_id, env.SEARCH_ENGINE_ID)
        cloud_api_key == Or(params.cloud_api_key, env.CLOUD_API_KEY)
    IN IF google_api_key # "" /\ search_engine_id # ""
       THEN [route |-> "direct", key |-> google_api_key, cx |-> search_engine_id]
       ELSE IF cloud_api_key # "" THEN cloud_search_google(params)
       ELSE ValueError

\* a toolkit of session id runs search_google
search_google(id) ==
    /\ resp' = Returned("search_google", id,
                        [params |-> get_search_params(id),
                         used |-> search_google_result(get_search_params(id), environ)])
    /\ UNCHANGED <<task_locks, locks, chans, tasks, streams, putters, fs, oauth, dels,
                   cleanups, now, environ, sweep, oauth_states, oauth_flows>>

(* ------------------------------ engine --------------------------------- *)
\* the drive loop takes the next action of the TaskLock it was started with
EngineGet(L) ==
    /\ locks[L].queue # <<>>
    /\ locks' = [locks EXCEPT ![L] = get_queue(@)]
    /\ resp' = NoResp
    /\ UNCHANGED <<task_locks, chans, tasks, streams, putters, fs, oauth,
                   dels, cleanups, now, environ, sweep, oauth_states, oauth_flows>>

\* get_queue called on an empty queue: last_accessed is set, then the caller
\* waits at `await self.queue.get()`
get_queue_wait(L) == [L EXCEPT !.last_accessed = now]

GetQueueWait(L) ==
    /\ locks[L].queue = <<>>
    /\ locks' = [locks EXCEPT ![L] = get_queue_wait(@)]
    /\ resp' = Resp("get_queue", locks[L].id, "none", 0)
    /\ UNCHANGED <<task_locks, chans, tasks, streams, putters, fs, oauth,
                   dels, cleanups, now, environ, sweep, oauth_states, oauth_flows>>

\* status edges driven by the engine: confirming -> processing, and
\* processing -> done with the result of the finished task
EngineStatus(L) ==
    /\ locks[L].status \in {"confirming", "processing"}
    /\ locks' = [locks EXCEPT ![L] =
                    IF @.status = "confirming" THEN [@ EXCEPT !.status = "processing"]
                    ELSE [@ EXCEPT !.status = "done", !.last_task_result = "result"]]
    /\ resp' = NoResp
    /\ UNCHANGED <<task_locks, chans, tasks, streams, putters, fs, oauth,
                   dels, cleanups, now, environ, sweep, oauth_states, oauth_flows>>

AddConversation(L) ==
    /\ HistBudget
    /\ locks' = [locks EXCEPT ![L] = add_conversation(@, "user", "text")]
    /\ resp' = NoResp
    /\ UNCHANGED <<task_locks, chans, tasks, streams, putters, fs, oauth,
                   dels, cleanups, now, environ, sweep, oauth_states, oauth_flows>>

\* task_lock.add_conversation(role, content) by the engine, the content
\* being the text of the turn
AddConversationEntry(L, role) ==
    /\ Len(locks[L].conversation_history) < MaxHistory
    /\ locks' = [locks EXCEPT ![L] = add_conversation(@, role, "text")]
    /\ resp' = NoResp
    /\ UNCHANGED <<task_locks, chans, tasks, streams, putters, fs, oauth,
                   dels, cleanups, now, environ, sweep, oauth_states, oauth_flows>>

(* ----------------------- background tasks, toolkits -------------------- *)
TaskDone(t) == tasks[t].state \in {"ok", "cancelled", "failed"}

add_background_task(L, t) == [L EXCEPT !.background_tasks = @ \cup {t}]
discard_never(L, t) == L

\* the done-callback installed by add_background_task
discard_task(L, t) == [L EXCEPT !.background_tasks = @ \ {t}]


\* _safe_put_queue / _update_terminal_output inside a running loop:
\* create_task(task_lock.put_queue(data)) and track it
SafePutQueue(id) ==
    LET g == get_task_lock(id)
        t == Len(tasks) + 1 IN
    /\ g.exc = "none"
    /\ Len(tasks) < MaxTasks
    /\ PutBudget
    /\ tasks' = Append(tasks, [state |-> "pending", lock |-> g.ret, kind |-> "put", to |-> id])
    /\ locks' = [locks EXCEPT ![g.ret] = add_background_task(@, t)]
    /\ resp' = NoResp
    /\ UNCHANGED <<task_locks, chans, streams, putters, fs, oauth, dels, cleanups, now, environ, sweep, oauth_states, oauth_flows>>

\* a toolkit emits an event for session id: get_task_lock(id), outside any
\* try, then a tracked task that puts the event (kind "put": on the running
\* loop, kind "thread": on the loop of a pool thread)
Emit(op, id, kind) ==
    LET g == get_task_lock(id)
        t == Len(tasks) + 1 IN
    /\ IF g.exc # "none"
       THEN /\ resp' = Resp(op, id, g.exc, 0)
            /\ UNCHANGED <<tasks, locks>>
       ELSE /\ Len(tasks) < MaxTasks
            /\ PutBudget
            /\ tasks' = Append(tasks, [state |-> "pending", lock |-> g.ret,
                                       kind |-> kind, to |-> id])
            /\ locks' = [locks EXCEPT ![g.ret] = add_background_task(@, t)]
            /\ resp' = Resp(op, id, "none", 0)
    /\ UNCHANGED <<task_locks, chans, streams, putters, fs, oauth, dels, cleanups, now, environ, sweep, oauth_states, oauth_flows>>

\* listen_toolkit.sync_wrapper on entry: the lookup and
\* _safe_put_queue(task_lock, activate_data)
sync_wrapper(id) == Emit("sync_wrapper", id, "put")

\* TerminalToolkit._update_terminal_output(output)
update_terminal_output(id) ==
    \E kind \in {"put", "thread"} : Emit("update_terminal_output", id, kind)

\* listen_toolkit.async_wrapper: the lookup and the put of the activate
\* event; the tool then runs, and the deactivate event is put (by TaskFinish)
\* on the TaskLock the wrapper holds
async_wrapper(id) ==
    LET g == get_task_lock(id) IN
    /\ IF g.exc # "none"
       THEN /\ resp' = Resp("async_wrapper", id, g.exc, 0)
            /\ UNCHANGED <<tasks, locks>>
       ELSE /\ Len(tasks) < MaxTasks
            /\ PutsMade + 2 <= MaxPuts
            /\ tasks' = Append(tasks, [state |-> "pending", lock |-> g.ret,
                                       kind |-> "tool", to |-> id])
            /\ locks' = [locks EXCEPT
                            ![g.ret] = put_queue(@, Item("activate_toolkit", id, @))]
            /\ resp' = Resp("async_wrapper", id, "none", 0)
    /\ UNCHANGED <<task_locks, chans, streams, putters, fs, oauth, dels, cleanups, now, environ, sweep, oauth_states, oauth_flows>>

\* _update_terminal_output outside a running loop (_run_coro_in_thread): the
\* put_queue task is created on the event loop of a pool thread and tracked
\* by the TaskLock of the main loop
TrackTask(L) ==
    LET t == Len(tasks) + 1 IN
    /\ Len(tasks) < MaxTasks
    /\ PutBudget
    /\ tasks' = Append(tasks, [state |-> "pending", lock |-> L, kind |-> "thread",
                               to |-> locks[L].id])
    /\ locks' = [locks EXCEPT ![L] = add_background_task(@, t)]
    /\ resp' = NoResp
    /\ UNCHANGED <<task_locks, chans, streams, putters, fs, oauth, dels, cleanups, now, environ, sweep, oauth_states, oauth_flows>>

\* what a task puts when it runs: a wrapped tool that returned puts the
\* deactivate event of its wrapper, a put task puts its event
EventOf(t) == IF tasks[t].kind = "tool" THEN "deactivate_toolkit" ELSE "event"

\* a pending task runs to completion
TaskFinish(t) ==
    LET L == tasks[t].lock IN
    /\ tasks[t].state = "pending"
    /\ tasks' = [tasks EXCEPT ![t].state = "ok"]
    /\ locks' = [locks EXCEPT ![L] =
                    discard_task(put_queue(@, Item(EventOf(t), tasks[t].to, @)), t)]
    /\ resp' = NoResp
    /\ UNCHANGED <<task_locks, chans, streams, putters, fs, oauth, dels, cleanups, now, environ, sweep, oauth_states, oauth_flows>>

\* the await of a task whose cancellation was requested ends: with
\* CancelledError, or, for a task of another thread's loop (cancel() and
\* await from the main loop race with that loop), with RuntimeError while
\* the task may or may not have made its put
TaskCancelled(t) ==
    LET L == tasks[t].lock IN
    /\ tasks[t].state = "cancelling"
    /\ \/ /\ tasks' = [tasks EXCEPT ![t].state = "cancelled"]
          /\ locks' = [locks EXCEPT ![L] = discard_task(@, t)]
       \/ /\ tasks[t].kind = "thread"
          /\ tasks' = [tasks EXCEPT ![t].state = "failed"]
          /\ \/ locks' = [locks EXCEPT ![L] = discard_task(@, t)]
             \/ locks' = [locks EXCEPT ![L] =
                    discard_task(put_queue(@, Item("event", tasks[t].to, @)), t)]
    /\ resp' = NoResp
    /\ UNCHANGED <<task_locks, chans, streams, putters, fs, oauth, dels, cleanups, now, environ, sweep, oauth_states, oauth_flows>>

\* async_wrapper, the wrapped tool raises an Exception: `except Exception
\* as e: error = e`, the deactivate event is put, then `raise error`
ToolRaise(t) ==
    LET L == tasks[t].lock IN
    /\ tasks[t].kind = "tool"
    /\ tasks[t].state = "pending"
    /\ tasks' = [tasks EXCEPT ![t].state = "failed"]
    /\ locks' = [locks EXCEPT ![L] =
                    put_queue(@, Item("deactivate_toolkit", tasks[t].to, @))]
    /\ resp' = Resp("async_wrapper_exit", tasks[t].to, "ToolError", 0)
    /\ UNCHANGED <<task_locks, chans, streams, putters, fs, oauth, dels, cleanups, now, environ, sweep, oauth_states, oauth_flows>>

\* async_wrapper, the coroutine that awaits the wrapped tool is cancelled:
\* CancelledError is a BaseException, `except Exception` does not catch it
\* and it leaves the wrapper from `await func(*args, **kwargs)`
ToolCancelled(t) ==
    /\ tasks[t].kind = "tool"
    /\ tasks[t].state = "pending"
    /\ tasks' = [tasks EXCEPT ![t].state = "cancelled"]
    /\ resp' = Resp("async_wrapper_exit", tasks[t].to, "CancelledError", 0)
    /\ UNCHANGED <<task_locks, locks, chans, streams, putters, fs, oauth, dels, cleanups,
                   now, environ, sweep, oauth_states, oauth_flows>>

InList(k, l) == \E i \in 1..Len(l) : l[i] = k

register_toolkit_append(L, k) ==
    [L EXCEPT !.registered_toolkits = Append(@, k), !.regs = @ + 1]

\* TaskLock.register_toolkit(toolkit); regs counts the calls
register_toolkit(L, k) ==
    IF InList(k, L.registered_toolkits) THEN [L EXCEPT !.regs = @ + 1]
    ELSE [L EXCEPT !.registered_toolkits = Append(@, k), !.regs = @ + 1]

\* TerminalToolkit.__init__: registers itself with the session's TaskLock,
\* if the session exists
RegisterToolkit(id, k) ==
    LET L == get_task_lock_if_exists(id) IN
    /\ L # NoLock
    /\ locks[L].regs < MaxRegs
    /\ locks' = [locks EXCEPT ![L] = register_toolkit(@, k)]
    /\ resp' = NoResp
    /\ UNCHANGED <<task_locks, chans, tasks, streams, putters, fs, oauth, dels, cleanups, now, environ, sweep, oauth_states, oauth_flows>>

\* OAuthStateManager.create_state(provider, project_id)
create_state(id) ==
    /\ id \notin oauth
    /\ oauth' = oauth \cup {id}
    /\ resp' = NoResp
    /\ UNCHANGED <<task_locks, locks, chans, tasks, streams, putters, fs, dels, cleanups, now, environ, sweep, oauth_states, oauth_flows>>

clear_project(st, id) == st \ {id}

\* write_content_to_project(api_task_id, ...)
write_content_to_project(id) ==
    LET lk == get_task_lock_if_exists(id) IN
    /\ lk # NoLock
    /\ locks[lk].file_save_path # NoPath
    /\ SubDir(locks[lk].file_save_path, ".eigent_credentials") \notin fs
    /\ fs' = mkdir(fs, SubDir(locks[lk].file_save_path, ".eigent_credentials"))
    /\ resp' = NoResp
    /\ UNCHANGED <<task_locks, locks, chans, tasks, streams, putters, oauth, dels, cleanups, now, environ, sweep, oauth_states, oauth_flows>>

(* ----------------------- OAuth authorization flows --------------------- *)
\* GoogleCalendarToolkit.start_background_auth(api_task_id) up to the start
\* of the thread: an authorization of the project that is still under way is
\* cancelled (no code sets OAuthState.server, so no server is shut down), and
\* a new state takes its key
start_background_auth(project_id) ==
    LET old == oauth_states[state_key(project_id, "google_calendar")]
        fls == IF old # NoState /\ Active(oauth_flows[old])
               THEN [oauth_flows EXCEPT ![old] = cancel(@)] ELSE oauth_flows
        r == OAuthStateManager_create_state(oauth_states, fls, "google_calendar", project_id)
    IN
    /\ Len(oauth_flows) < MaxFlows
    /\ oauth_states' = r.states
    /\ oauth_flows' = r.flows
    /\ resp' = Returned("start_background_auth", "", [project |-> project_id])
    /\ UNCHANGED <<task_locks, locks, chans, tasks, streams, putters, fs, oauth, dels,
                   cleanups, now, environ, sweep>>

\* a step of the thread of flow f that leaves the manager's objects as fls
AuthFlowStep(f, pc, fls) ==
    /\ oauth_flows' = [fls EXCEPT ![f].pc = pc]
    /\ resp' = Returned("auth_flow", "", [flow |-> f])
    /\ UNCHANGED <<task_locks, locks, chans, tasks, streams, putters, fs, oauth, dels,
                   cleanups, now, environ, sweep, oauth_states>>

\* auth_flow: state.status = "authorizing" on the thread's own state, then
\* update_status("google_calendar", "authorizing", project_id=project_id)
AuthFlowBegin(f) ==
    /\ oauth_flows[f].pc = "start"
    /\ AuthFlowStep(f, "config",
           OAuthStateManager_update_status(
               oauth_states, [oauth_flows EXCEPT ![f].status = "authorizing"],
               "google_calendar", "authorizing", oauth_flows[f].project, "", ""))

\* auth_flow, `except Exception as e`: the update that the handler makes
auth_flow_except(f) ==
    IF oauth_flows[f].cancelled
    THEN OAuthStateManager_update_status(oauth_states, oauth_flows, "google_calendar",
                                         "cancelled", oauth_flows[f].project, "", "")
    ELSE OAuthStateManager_update_status(oauth_states, oauth_flows, "google_calendar",
                                         "failed", oauth_flows[f].project, "error", "")

\* auth_flow from the client configuration to the first cancellation check:
\* without client_id and client_secret a ValueError is raised and handled
AuthFlowConfig(f) ==
    /\ oauth_flows[f].pc = "config"
    /\ \/ AuthFlowStep(f, "done", auth_flow_except(f))
       \/ AuthFlowStep(f, IF oauth_flows[f].cancelled THEN "done" ELSE "server", oauth_flows)

\* flow.run_local_server(...) returns the credentials or raises
AuthFlowServer(f) ==
    /\ oauth_flows[f].pc = "server"
    /\ \/ AuthFlowStep(f, "done", auth_flow_except(f))
       \/ AuthFlowStep(f, "done",
             IF oauth_flows[f].cancelled THEN oauth_flows
             ELSE OAuthStateManager_update_status(oauth_states, oauth_flows, "google_calendar",
                                                  "success", oauth_flows[f].project, "", "creds"))

\* POST /oauth/cancel/{provider}
cancel_oauth(project_id) ==
    LET st == oauth_states[state_key(project_id, "google_calendar")] IN
    /\ IF st = NoState
       THEN /\ resp' = Resp("cancel_oauth", "", "HTTPException", 404)
            /\ UNCHANGED oauth_flows
       ELSE IF ~Active(oauth_flows[st])
       THEN /\ resp' = Resp("cancel_oauth", "", "HTTPException", 400)
            /\ UNCHANGED oauth_flows
       ELSE /\ resp' = Resp("cancel_oauth", "", "none", 200)
            /\ oauth_flows' = [oauth_flows EXCEPT ![st] = cancel(@)]
    /\ UNCHANGED <<task_locks, locks, chans, tasks, streams, putters, fs, oauth, dels,
                   cleanups, now, environ, sweep, oauth_states>>

\* oauth_state_manager.clear_project(project_id), as delete_task_lock and
\* uninstall_tool call it
ClearProject(project_id) ==
    LET r == OAuthStateManager_clear_project(oauth_states, oauth_flows, project_id) IN
    /\ oauth_states' = r.states
    /\ oauth_flows' = r.flows
    /\ resp' = Returned("clear_project", "", [project |-> project_id])
    /\ UNCHANGED <<task_locks, locks, chans, tasks, streams, putters, fs, oauth, dels,
                   cleanups, now, environ, sweep>>

(* ------------------------------ teardown ------------------------------- *)
\* cleanup_project_credentials(id) on the directories dirs
cleanup_project_credentials(dirs, lks, id) ==
    LET lk == get_task_lock_if_exists(id) IN
    IF lk = NoLock THEN dirs
    ELSE IF lks[lk].file_save_path = NoPath THEN dirs
    ELSE IF ~is_dir(dirs, SubDir(lks[lk].file_save_path, ".eigent_credentials")) THEN dirs
    ELSE rmtree(dirs, SubDir(lks[lk].file_save_path, ".eigent_credentials"))

\* does cleanup_file_save_path(id) reach shutil.rmtree ?
RemovesDir(dirs, lks, id) ==
    LET lk == get_task_lock_if_exists(id) IN
    /\ lk # NoLock
    /\ lks[lk].file_save_path # NoPath
    /\ is_dir(dirs, lks[lk].file_save_path)

cleanup_file_save_path(dirs, lks, id) ==
    IF RemovesDir(dirs, lks, id)
    THEN rmtree(dirs, lks[get_task_lock_if_exists(id)].file_save_path)
    ELSE dirs

\* TaskLock.cleanup() after its loop over the background tasks
cleanup_rest(L) == [L EXCEPT !.background_tasks = {}, !.registered_toolkits = <<>>]

CleanupCalls(L, k) == Cardinality({i \in 1..Len(L.registered_toolkits) :
                                      L.registered_toolkits[i] = k})

\* delete_task_lock(id) from the end of cleanup()'s task loop to its return,
\* for the TaskLock L it looked up on entry; lks is the heap on entry
delete_tail(id, L, lks) ==
    LET lks1 == [lks EXCEPT ![L] = cleanup_rest(@)]
        fs1 == cleanup_project_credentials(fs, lks1, id)
        rm == RemovesDir(fs1, lks1, id)
        fs2 == cleanup_file_save_path(fs1, lks1, id)
        lks2 == IF rm THEN [lks1 EXCEPT ![get_task_lock_if_exists(id)].rmtrees = @ + 1]
                ELSE lks1
    IN [locks |-> lks2,
        cleanups |-> [k \in Toolkits |-> cleanups[k] + CleanupCalls(lks[L], k)],
        oauth |-> clear_project(oauth, id),
        fs |-> fs2,
        task_locks |-> IF Live(id) THEN [task_locks EXCEPT ![id] = NoLock] ELSE task_locks,
        exc |-> IF Live(id) THEN "none" ELSE "KeyError"]

StreamAfter_nobreak(strs, s, reason, ok, tl) ==
    [strs EXCEPT
       ![s].pc = CASE reason = "TIMEOUT" -> "wait"
                   [] reason = "CANCELLED" -> "cancelled"
                   [] OTHER -> "raised",
       ![s].cleanup_triggered = IF reason = "TIMEOUT" THEN ok ELSE @,
       ![s].gone = (tl[locks[strs[s].lock].id] = NoLock)]

\* the wrapper's continuation once _cleanup_task_lock_safe has returned ok
StreamAfter(strs, s, reason, ok, tl) ==
    [strs EXCEPT
       ![s].pc = CASE reason = "TIMEOUT" -> "ended"
                   [] reason = "CANCELLED" -> "cancelled"
                   [] OTHER -> "raised",
       ![s].cleanup_triggered = IF reason = "TIMEOUT" THEN ok ELSE @,
       ![s].gone = (tl[locks[strs[s].lock].id] = NoLock)]

PutDel(idx, D) == IF idx > Len(dels) THEN Append(dels, D) ELSE [dels EXCEPT ![idx] = D]

\* delete_task_lock ends with exception exc before its tail
DeleteRaise(D, idx, exc, lks, strs) ==
    /\ dels' = PutDel(idx, [D EXCEPT !.pc = "raised", !.exc = exc, !.awaiting = NoTask])
    /\ locks' = lks
    /\ streams' = IF D.caller = 0 THEN strs
                  ELSE StreamAfter(strs, D.caller, D.reason, FALSE, task_locks)
    /\ UNCHANGED <<task_locks, tasks, cleanups, oauth, fs>>

\* delete_task_lock from the head of cleanup()'s loop: cancel and await the
\* next unfinished task of the snapshot, or run the tail
DeleteRun(D, idx, lks, strs) ==
    LET pend == {t \in D.todo : ~TaskDone(t)} IN
    IF pend # {}
    THEN \E t \in pend :
           /\ tasks' = [tasks EXCEPT ![t].state = "cancelling"]
           /\ dels' = PutDel(idx, [D EXCEPT !.todo = pend \ {t}, !.awaiting = t,
                                            !.pc = "await"])
           /\ locks' = lks
           /\ streams' = IF D.caller = 0 THEN strs
                         ELSE [strs EXCEPT ![D.caller].pc = "td"]
           /\ UNCHANGED <<task_locks, cleanups, oauth, fs>>
    ELSE LET r == delete_tail(D.id, D.lock, lks) IN
           /\ locks' = r.locks
           /\ cleanups' = r.cleanups
           /\ oauth' = r.oauth
           /\ fs' = r.fs
           /\ task_locks' = r.task_locks
           /\ dels' = PutDel(idx, [D EXCEPT !.todo = {}, !.awaiting = NoTask,
                                   !.pc = IF r.exc = "none" THEN "returned" ELSE "raised",
                                   !.exc = r.exc])
           /\ streams' = IF D.caller = 0 THEN strs
                         ELSE StreamAfter(strs, D.caller, D.reason, r.exc = "none",
                                          r.task_locks)
           /\ UNCHANGED tasks

NewDel(caller, reason, id) ==
    [caller |-> caller, reason |-> reason, id |-> id, lock |-> task_locks[id],
     todo |-> IF Live(id) THEN locks[task_locks[id]].background_tasks ELSE {},
     awaiting |-> NoTask, pc |-> "start", exc |-> "none"]

Direct == {i \in 1..Len(dels) : dels[i].caller = 0}

\* delete_task_lock(id) called directly (the engine after a stop)
delete_task_lock(id) ==
    /\ Cardinality(Direct) < MaxEngines
    /\ IF ~Live(id)
       THEN DeleteRaise(NewDel(0, "ENGINE", id), Len(dels) + 1, "Task not found",
                        locks, streams)
       ELSE DeleteRun(NewDel(0, "ENGINE", id), Len(dels) + 1, locks, streams)
    /\ resp' = NoResp
    /\ UNCHANGED <<chans, putters, now, environ, sweep, oauth_states, oauth_flows>>

\* the awaited task is done: `await task` returns or raises
DeleteResume(i) ==
    /\ dels[i].pc = "await"
    /\ TaskDone(dels[i].awaiting)
    /\ IF tasks[dels[i].awaiting].state = "failed"
       THEN DeleteRaise(dels[i], i, "TaskError", locks, streams)
       ELSE DeleteRun(dels[i], i, locks, streams)
    /\ resp' = NoResp
    /\ UNCHANGED <<chans, putters, now, environ, sweep, oauth_states, oauth_flows>>

(* --------------------------- staleness sweep --------------------------- *)
\* current_time - task_lock.last_accessed > stale_timeout
Stale(L) == (now - L.last_accessed) * TickSeconds > STALE_TIMEOUT_SECONDS

\* is the task _periodic_cleanup running?  _cleanup_task is initialised to
\* None and nothing assigns it: its start in create_task_lock is commented out
cleanup_task_started == FALSE

\* one round of _periodic_cleanup on a stale session
PeriodicCleanup(id) ==
    /\ cleanup_task_started
    /\ Live(id)
    /\ Stale(locks[task_locks[id]])
    /\ DeleteRun(NewDel(0, "SWEEP", id), Len(dels) + 1, locks, streams)
    /\ resp' = NoResp
    /\ UNCHANGED <<chans, putters, now, environ, sweep, oauth_states, oauth_flows>>

\* the ids of task_locks.items() whose TaskLock is stale, in the order of
\* the dictionary, which is the order in which the entries were inserted
RECURSIVE stale_ids_from(_)
stale_ids_from(r) ==
    IF r > Len(locks) THEN <<>>
    ELSE (IF task_locks[locks[r].id] = r /\ Stale(locks[r]) THEN <<locks[r].id>> ELSE <<>>)
         \o stale_ids_from(r + 1)

stale_ids == stale_ids_from(1)

\* `await delete_task_lock(task_id)` of the sweep
SweepDelete(id) ==
    IF ~Live(id)
    THEN DeleteRaise(NewDel(0, "SWEEP", id), Len(dels) + 1, "Task not found",
                     locks, streams)
    ELSE DeleteRun(NewDel(0, "SWEEP", id), Len(dels) + 1, locks, streams)

\* _periodic_cleanup wakes from its sleep, samples the stale ids and calls
\* delete_task_lock for the first of them
SweepBegin ==
    /\ sweep = NoSweep
    /\ stale_ids # <<>>
    /\ SweepDelete(Head(stale_ids))
    /\ sweep' = [ids |-> Tail(stale_ids), del |-> Len(dels) + 1]
    /\ resp' = NoResp
    /\ UNCHANGED <<chans, putters, now, environ, oauth_states, oauth_flows>>

\* the sweep's delete_task_lock has ended and the sweep holds the event loop
SweepRunnable == sweep.del # 0 /\ dels[sweep.del].pc \in {"returned", "raised"}

\* the delete_task_lock that the sweep awaited has ended: an exception ends
\* the round (`except Exception` around the loops), otherwise the loop goes
\* on to the next sampled id, or the round is over
SweepContinue ==
    /\ SweepRunnable
    /\ IF dels[sweep.del].pc = "raised" \/ sweep.ids = <<>>
       THEN /\ sweep' = NoSweep
            /\ UNCHANGED <<task_locks, locks, tasks, streams, fs, oauth, dels, cleanups>>
       ELSE /\ SweepDelete(Head(sweep.ids))
            /\ sweep' = [ids |-> Tail(sweep.ids), del |-> Len(dels) + 1]
    /\ resp' = NoResp
    /\ UNCHANGED <<chans, putters, now, environ, oauth_states, oauth_flows>>

(* ---------------------------- SSE wrapper ------------------------------ *)
Elapsed(s) == (now - streams[s].last_data_time) * TickSeconds
TimedOut(s) == Elapsed(s) >= SSE_TIMEOUT_SECONDS

\* _cleanup_task_lock_safe(task_lock, reason) called by stream s
cleanup_task_lock_safe(s, reason, strs0) ==
    LET L == streams[s].lock
        id == locks[L].id
        strs == [strs0 EXCEPT ![s].calls = @ + 1, ![s].reason = reason] IN
    IF ~Live(id)
    THEN /\ streams' = StreamAfter(strs, s, reason, FALSE, task_locks)
         /\ UNCHANGED <<task_locks, locks, tasks, cleanups, oauth, fs, dels>>
    ELSE DeleteRun(NewDel(s, reason, id), Len(dels) + 1,
                   [locks EXCEPT ![L].status = "done"], strs)

\* the event that the underlying stream yields next; made counts the
\* events it has yielded
next_event(S) == EventNames[S.made + 1]

on_data_twice(S, data) ==
    [S EXCEPT !.last_data_time = now, !.out = @ \o <<data, data>>,
              !.made = @ + 1, !.delivered_at = now]

on_data_noreset(S, data) ==
    [S EXCEPT !.out = Append(@, data), !.made = @ + 1, !.delivered_at = now]

\* data = await wait_for(generator.__anext__(), ...) returned:
\* last_data_time = time.time() ; yield data
\* (delivered_at is a history variable, the time of the last yield of data)
on_data(S, data) ==
    [S EXCEPT !.last_data_time = now, !.out = Append(@, data),
              !.made = @ + 1, !.delivered_at = now]

\* an event arrives before the deadline and is yielded
StreamData(s) ==
    /\ streams[s].pc = "wait"
    /\ ~TimedOut(s)
    /\ Len(streams[s].out) < MaxEvents
    /\ streams[s].made < Len(EventNames)
    /\ streams' = [streams EXCEPT ![s] = on_data(@, next_event(@))]
    /\ resp' = NoResp
    /\ UNCHANGED <<task_locks, locks, chans, tasks, putters, fs, oauth, dels, cleanups, now, environ, sweep, oauth_states, oauth_flows>>

\* StopAsyncIteration: the underlying stream ended
StreamEnd(s) ==
    /\ streams[s].pc = "wait"
    /\ streams' = [streams EXCEPT ![s].pc = "ended", ![s].reason = "END",
                      ![s].gone = ~Live(locks[streams[s].lock].id)]
    /\ resp' = NoResp
    /\ UNCHANGED <<task_locks, locks, chans, tasks, putters, fs, oauth, dels, cleanups, now, environ, sweep, oauth_states, oauth_flows>>

\* asyncio.TimeoutError: the timeout event is yielded
StreamTimeout(s) ==
    /\ streams[s].pc = "wait"
    /\ TimedOut(s)
    /\ streams' = [streams EXCEPT ![s].out = Append(@, "timeout"), ![s].pc = "tyield"]
    /\ resp' = NoResp
    /\ UNCHANGED <<task_locks, locks, chans, tasks, putters, fs, oauth, dels, cleanups, now, environ, sweep, oauth_states, oauth_flows>>

\* the consumer resumes the generator after the timeout event
StreamTimeoutCleanup(s) ==
    /\ streams[s].pc = "tyield"
    /\ cleanup_task_lock_safe(s, "TIMEOUT", streams)
    /\ resp' = NoResp
    /\ UNCHANGED <<chans, putters, now, environ, sweep, oauth_states, oauth_flows>>

\* CancelledError raised at the wrapper's await
StreamCancel(s) ==
    /\ streams[s].pc = "wait"
    /\ IF ~streams[s].cleanup_triggered
       THEN cleanup_task_lock_safe(s, "CANCELLED", streams)
       ELSE /\ streams' = StreamAfter(streams, s, "CANCELLED", FALSE, task_locks)
            /\ UNCHANGED <<task_locks, locks, tasks, cleanups, oauth, fs, dels>>
    /\ resp' = NoResp
    /\ UNCHANGED <<chans, putters, now, environ, sweep, oauth_states, oauth_flows>>

\* the underlying stream raised an Exception
StreamError(s) ==
    /\ streams[s].pc = "wait"
    /\ IF ~streams[s].cleanup_triggered
       THEN cleanup_task_lock_safe(s, "ERROR", streams)
       ELSE /\ streams' = StreamAfter(streams, s, "ERROR", FALSE, task_locks)
            /\ UNCHANGED <<task_locks, locks, tasks, cleanups, oauth, fs, dels>>
    /\ resp' = NoResp
    /\ UNCHANGED <<chans, putters, now, environ, sweep, oauth_states, oauth_flows>>

\* time passes; a due wait_for timer fires before the clock moves on
Tick ==
    /\ now < MaxTime
    /\ \A s \in 1..Len(streams) : streams[s].pc = "wait" => ~TimedOut(s)
    /\ now' = now + 1
    /\ UNCHANGED <<task_locks, locks, chans, tasks, streams, putters, fs, oauth, dels,
                   cleanups, resp, environ, sweep, oauth_states, oauth_flows>>

(* ------------------------- human-input channels ------------------------ *)
\* asyncio.Queue(1); accepted/consumed are history variables
NewChan == [q |-> <<>>, accepted |-> <<>>, consumed |-> <<>>]

full_never(C) == FALSE

full(C) == Len(C.q) >= QueueMaxsize

chan_put(C, data) == [C EXCEPT !.q = Append(@, data), !.accepted = Append(@, data)]
chan_get(C) == [C EXCEPT !.q = Tail(@), !.consumed = Append(@, Head(C.q))]

Blocked(c) == {p \in 1..Len(putters) : putters[p].chan = c /\ putters[p].pc = "blocked"}

add_human_input_listen(L, agent) ==
    /\ Len(chans) < MaxChans
    /\ chans' = Append(chans, NewChan)
    /\ locks' = [locks EXCEPT ![L].human_input[agent] = Len(chans) + 1]
    /\ resp' = NoResp
    /\ UNCHANGED <<task_locks, tasks, streams, putters, fs, oauth, dels, cleanups, now, environ, sweep, oauth_states, oauth_flows>>

\* put_human_input: completes at once, or suspends while the queue is full
put_human_input(L, agent, data) ==
    LET c == locks[L].human_input[agent] IN
    IF c = NoChan
    THEN /\ resp' = Resp("put_human_input", locks[L].id, "KeyError", 0)
         /\ UNCHANGED <<task_locks, locks, chans, tasks, streams, putters, fs, oauth,
                        dels, cleanups, now, environ, sweep, oauth_states, oauth_flows>>
    ELSE /\ Len(chans[c].accepted) + Cardinality(Blocked(c)) < MaxReplies
         /\ IF full(chans[c])
            THEN /\ Len(putters) < MaxPutters
                 /\ putters' = Append(putters, [chan |-> c, data |-> data, pc |-> "blocked"])
                 /\ UNCHANGED chans
            ELSE /\ chans' = [chans EXCEPT ![c] = chan_put(@, data)]
                 /\ UNCHANGED putters
         /\ resp' = NoResp
         /\ UNCHANGED <<task_locks, locks, tasks, streams, fs, oauth, dels, cleanups, now, environ, sweep, oauth_states, oauth_flows>>

\* POST /chat/{id}/human-reply
human_reply(id, agent, data) ==
    LET g == lookup(id) IN
    IF g.exc # "none"
    THEN /\ resp' = Resp("human_reply", id, g.exc, g.code)
         /\ UNCHANGED <<task_locks, locks, chans, tasks, streams, putters, fs, oauth,
                        dels, cleanups, now, environ, sweep, oauth_states, oauth_flows>>
    ELSE put_human_input(g.ret, agent, data)

\* a suspended put_human_input is woken and finds room
PutterResume(p) ==
    /\ putters[p].pc = "blocked"
    /\ ~full(chans[putters[p].chan])
    /\ chans' = [chans EXCEPT ![putters[p].chan] = chan_put(@, putters[p].data)]
    /\ putters' = [putters EXCEPT ![p].pc = "done"]
    /\ resp' = NoResp
    /\ UNCHANGED <<task_locks, locks, tasks, streams, fs, oauth, dels, cleanups, now, environ, sweep, oauth_states, oauth_flows>>

get_human_input(L, agent) ==
    LET c == locks[L].human_input[agent] IN
    /\ c # NoChan
    /\ chans[c].q # <<>>
    /\ chans' = [chans EXCEPT ![c] = chan_get(@)]
    /\ resp' = NoResp
    /\ UNCHANGED <<task_locks, locks, tasks, streams, putters, fs, oauth, dels, cleanups, now, environ, sweep, oauth_states, oauth_flows>>

(* --------------------------- specification ----------------------------- *)
RegistryOps ==
    \E id \in Ids : CreateTaskLock(id) \/ delete_task_lock(id) \/ PeriodicCleanup(id)

HandlerOps ==
    \/ \E id \in Ids, t \in TaskIds : post(id, t, PlainChat)
    \/ \E id \in Ids, t \in NewTaskIds : improve(id, t)
    \/ \E id \in Ids : supplement(id) \/ stop(id)

EngineOps ==
    \E L \in Refs : \/ EngineGet(L) \/ EngineStatus(L)
                    \/ AddConversation(L)

TaskOps ==
    \/ \E id \in Ids : \/ SafePutQueue(id) \/ create_state(id)
                       \/ write_content_to_project(id)
                       \/ \E k \in Toolkits : RegisterToolkit(id, k)
    \/ \E L \in Refs : TrackTask(L)
    \/ \E t \in 1..Len(tasks) : TaskFinish(t) \/ TaskCancelled(t)
    \/ \E i \in 1..Len(dels) : DeleteResume(i)

StreamOps ==
    \E s \in 1..Len(streams) :
        \/ StreamData(s) \/ StreamEnd(s) \/ StreamTimeout(s)
        \/ StreamTimeoutCleanup(s) \/ StreamCancel(s) \/ StreamError(s)

HumanOps ==
    \/ \E L \in Refs, a \in Agents :
          \/ add_human_input_listen(L, a)
          \/ get_human_input(L, a)
          \/ \E d \in Replies : put_human_input(L, a, d)
    \/ \E p \in 1..Len(putters) : PutterResume(p)

\* the chat endpoints
ChatOps ==
    \/ \E id \in Ids, t \in NewTaskIds : improve(id, t)
    \/ \E id \in Ids : \/ supplement(id) \/ stop(id) \/ install_mcp(id)
                       \/ add_task(id) \/ remove_task(id) \/ skip_task(id)
    \/ \E id \in Ids, a \in Agents, d \in Replies : human_reply(id, a, d)

\* the task endpoints
TaskControlOps ==
    \/ \E id \in Ids : \/ start(id) \/ put(id) \/ add_agent(id)
                       \/ \E a \in {"pause", "resume"} : take_control(id, a)
    \/ stop_all

\* what running toolkits and engines do with their session
ToolkitOps ==
    \/ \E id \in Ids : \/ async_wrapper(id) \/ sync_wrapper(id)
                       \/ update_terminal_output(id) \/ search_google(id)
                       \/ \E t \in TaskIds : get_working_directory(id, t)
    \/ \E L \in Refs : changed_files_directory(L)

\* the engine waits for actions and records the turns of the conversation
EngineWaitOps ==
    \E L \in Refs : \/ GetQueueWait(L)
                    \/ \E role \in Roles : AddConversationEntry(L, role)

\* a wrapped tool raises or is cancelled
ToolExitOps == \E t \in 1..Len(tasks) : ToolRaise(t) \/ ToolCancelled(t)

\* _periodic_cleanup, if it was started
SweepOps == cleanup_task_started /\ (SweepBegin \/ SweepContinue)

\* the OAuth authorization flows and the requests that manage them
OAuthOps ==
    \/ \E p \in OAuthProjects : \/ start_background_auth(p) \/ cancel_oauth(p)
                                 \/ ClearProject(p)
    \/ \E f \in 1..Len(oauth_flows) : \/ AuthFlowBegin(f) \/ AuthFlowConfig(f)
                                       \/ AuthFlowServer(f)

Next ==
    \/ RegistryOps \/ HandlerOps \/ ChatOps \/ TaskControlOps \/ EngineOps \/ TaskOps
    \/ ToolkitOps \/ StreamOps \/ HumanOps \/ Tick
    \/ EngineWaitOps \/ ToolExitOps \/ SweepOps \/ OAuthOps

Spec == Init /\ [][Next]_vars

\* the registry and one session's action queue, with its producers and consumer
NextQueue ==
    \/ \E id \in Ids : CreateTaskLock(id) \/ delete_task_lock(id)
    \/ HandlerOps
    \/ EngineOps

SpecQueue == Init /\ [][NextQueue]_vars

\* the SSE wrappers over one session with background tasks
NextStream ==
    \/ \E id \in OneId, t \in TaskIds : post(id, t, PlainChat)
    \/ \E L \in Refs : TrackTask(L)
    \/ \E t \in 1..Len(tasks) : TaskFinish(t) \/ TaskCancelled(t)
    \/ \E i \in 1..Len(dels) : DeleteResume(i)
    \/ StreamOps
    \/ Tick

SpecStream == Init /\ [][NextStream]_vars

\* teardown of one session by its streams and by direct delete_task_lock calls
NextTeardown ==
    \/ \E id \in OneId, t \in TaskIds : post(id, t, PlainChat)
    \/ \E id \in OneId : \/ delete_task_lock(id) \/ create_state(id)
                         \/ write_content_to_project(id)
                         \/ \E k \in Toolkits : RegisterToolkit(id, k)
    \/ \E L \in Refs : TrackTask(L)
    \/ \E t \in 1..Len(tasks) : TaskFinish(t) \/ TaskCancelled(t)
    \/ \E i \in 1..Len(dels) : DeleteResume(i)
    \/ \E s \in 1..Len(streams) : StreamCancel(s)

SpecTeardown == Init /\ [][NextTeardown]_vars

\* the human-input channels of the sessions
NextHuman ==
    \/ \E id \in Ids : CreateTaskLock(id)
    \/ HumanOps

SpecHuman == Init /\ [][NextHuman]_vars

NextChat ==
    \/ \E id \in OneId : \/ CreateTaskLock(id) \/ delete_task_lock(id)
                         \/ supplement(id) \/ stop(id) \/ install_mcp(id)
                         \/ add_task(id) \/ remove_task(id) \/ skip_task(id)
    \/ \E id \in OneId, t \in NewTaskIds : improve(id, t)
    \/ \E id \in OneId, a \in Agents, d \in Replies : human_reply(id, a, d)
    \/ \E L \in Refs : EngineStatus(L)

\* the chat endpoints on one session id that is unknown, live, done or gone
SpecChat == Init /\ [][NextChat]_vars

\* TaskLock.cleanup() inside delete_task_lock, with the producers of tracked
\* tasks and the toolkit registrations of one session
NextCleanup ==
    \/ \E id \in OneId : \/ CreateTaskLock(id) \/ delete_task_lock(id)
                         \/ SafePutQueue(id)
                         \/ \E k \in Toolkits : RegisterToolkit(id, k)
    \/ \E L \in Refs : TrackTask(L)
    \/ \E t \in 1..Len(tasks) : TaskFinish(t) \/ TaskCancelled(t)
    \/ \E i \in 1..Len(dels) : DeleteResume(i)

SpecCleanup == Init /\ [][NextCleanup]_vars

\* POST /chat on known and unknown session ids, with the engine at work on
\* the sessions already there
NextPost ==
    \/ \E id \in Ids, t \in TaskIds : post(id, t, PlainChat)
    \/ \E id \in Ids : CreateTaskLock(id) \/ delete_task_lock(id)
    \/ EngineOps

SpecPost == Init /\ [][NextPost]_vars

\* the fire-and-forget control requests on one of two sessions that the
\* engine works on
NextControl ==
    \/ \E id \in Ids : CreateTaskLock(id)
    \/ \E id \in OneId : \/ start(id) \/ put(id) \/ add_agent(id)
                         \/ \E a \in {"pause", "resume"} : take_control(id, a)
                         \/ stop(id) \/ install_mcp(id) \/ add_task(id)
                         \/ remove_task(id) \/ skip_task(id)
    \/ stop_all
    \/ EngineOps

SpecControl == Init /\ [][NextControl]_vars

\* the paths of one session: the requests that set them, with their
\* attachments, and the engine and toolkits that resolve the working directory
NextPaths ==
    \/ \E id \in OneId, t \in TaskIds, d \in ChatsWithAttaches : post(id, t, d)
    \/ \E id \in OneId, t \in NewTaskIds : improve(id, t)
    \/ \E id \in OneId : CreateTaskLock(id) \/ delete_task_lock(id)
    \/ \E id \in OneId, t \in TaskIds : get_working_directory(id, t)
    \/ \E L \in Refs : changed_files_directory(L)

SpecPaths == Init /\ [][NextPaths]_vars

\* two sessions with their own credentials and paths, in a process started
\* with any of the environments
NextCreds ==
    \/ \E id \in Ids, t \in TaskIds, d \in ChatsWithCreds : post(id, t, d)
    \/ \E id \in Ids, t \in NewTaskIds : improve(id, t)
    \/ \E id \in Ids : \/ CreateTaskLock(id) \/ delete_task_lock(id)
                       \/ search_google(id)

SpecCreds == InitEnviron /\ [][NextCreds]_vars

\* the SSE wrappers of streams that open when the server starts, as time
\* passes and the underlying streams yield events, end or fail
NextSse ==
    \/ now = 0 /\ \E id \in OneId, t \in TaskIds : post(id, t, PlainChat)
    \/ StreamOps
    \/ Tick

SpecSse == Init /\ [][NextSse]_vars

\* the queue of one session as time passes: the requests that put, the
\* engine that gets and waits, and the teardown
NextAccess ==
    \/ \E id \in OneId : CreateTaskLock(id) \/ delete_task_lock(id) \/ stop(id)
    \/ \E L \in Refs : EngineGet(L) \/ GetQueueWait(L)
    \/ Tick

SpecAccess == Init /\ [][NextAccess]_vars

\* the conversation of one session over its turns: the engine records
\* entries and completes tasks, requests continue, teardown deletes
NextHistory ==
    \/ \E id \in OneId : CreateTaskLock(id) \/ delete_task_lock(id)
    \/ \E id \in OneId, t \in NewTaskIds : improve(id, t)
    \/ \E L \in Refs : \/ EngineStatus(L)
                        \/ \E role \in Roles : AddConversationEntry(L, role)

SpecHistory == Init /\ [][NextHistory]_vars

\* the tool calls that listen_toolkit wraps, on one session: the call is
\* made, and the tool returns, raises or is cancelled
NextTool ==
    \/ \E id \in OneId : \/ CreateTaskLock(id) \/ delete_task_lock(id)
                         \/ async_wrapper(id)
    \/ \E L \in Refs : EngineGet(L)
    \/ \E t \in 1..Len(tasks) : TaskFinish(t) \/ ToolRaise(t) \/ ToolCancelled(t)

SpecTool == Init /\ [][NextTool]_vars

\* the tracked tasks of one session over its turns: toolkits spawn them,
\* the engine completes the turn, requests continue or stop it, teardown
\* cancels what is tracked
NextTrack ==
    \/ \E id \in OneId : \/ CreateTaskLock(id) \/ delete_task_lock(id)
                         \/ SafePutQueue(id) \/ stop(id)
    \/ \E id \in OneId, t \in NewTaskIds : improve(id, t)
    \/ \E L \in Refs : TrackTask(L) \/ EngineStatus(L)
    \/ \E t \in 1..Len(tasks) : TaskFinish(t) \/ TaskCancelled(t)
    \/ \E i \in 1..Len(dels) : DeleteResume(i)

SpecTrack == Init /\ [][NextTrack]_vars

\* two sessions that grow stale while _periodic_cleanup runs as a task of
\* the event loop: between its awaits the sweep runs on without a break, and
\* while it awaits, requests and tasks make their steps
NextPeriodic ==
    \/ SweepContinue
    \/ ~SweepRunnable /\ SweepBegin
    \/ ~SweepRunnable /\ \E id \in Ids : CreateTaskLock(id) \/ stop(id)
    \/ ~SweepRunnable /\ \E L \in Refs : TrackTask(L)
    \/ ~SweepRunnable /\ \E t \in 1..Len(tasks) : TaskFinish(t) \/ TaskCancelled(t)
    \/ ~SweepRunnable /\ \E i \in 1..Len(dels) : DeleteResume(i)
    \/ ~SweepRunnable /\ Tick

SpecPeriodic == Init /\ [][NextPeriodic]_vars

\* the OAuth authorization flows of two projects, the id of one being the
\* id of the other followed by ":" and more
NextOAuth == OAuthOps

SpecOAuth == Init /\ [][NextOAuth]_vars

\* the events that toolkits emit for one session before and after its teardown
NextEmit ==
    \/ \E id \in OneId : \/ CreateTaskLock(id) \/ delete_task_lock(id)
                         \/ async_wrapper(id) \/ sync_wrapper(id)
                         \/ update_terminal_output(id)
    \/ \E L \in Refs : EngineGet(L)
    \/ \E t \in 1..Len(tasks) : TaskFinish(t) \/ TaskCancelled(t)
    \/ \E i \in 1..Len(dels) : DeleteResume(i)

SpecEmit == Init /\ [][NextEmit]_vars

\* the directories of one session: the requests that create them and the
\* teardown that removes them
NextDirs ==
    \/ \E id \in OneId, t \in TaskIds : post(id, t, PlainChat)
    \/ \E id \in OneId, t \in NewTaskIds : improve(id, t)
    \/ \E id \in OneId : write_content_to_project(id) \/ delete_task_lock(id)
    \/ \E L \in Refs : EngineGet(L) \/ EngineStatus(L)
    \/ \E s \in 1..Len(streams) : StreamCancel(s)

SpecDirs == Init /\ [][NextDirs]_vars

\* sessions with and without an SSE stream as time passes.  No step of
\* _periodic_cleanup is among the steps: the task is never started.  The
\* clock advances, and a wrapper whose timeout expired handles it.
NextSweep ==
    \/ \E id \in OneId : CreateTaskLock(id)
    \/ \E id \in OneId, t \in TaskIds : post(id, t, PlainChat)
    \/ \E s \in 1..Len(streams) : \/ StreamEnd(s) \/ StreamCancel(s)
                                  \/ StreamTimeout(s) \/ StreamTimeoutCleanup(s)
    \/ Tick

SweepFairness ==
    /\ WF_vars(Tick)
    /\ WF_vars(\E s \in 1..MaxStreams :
                  s <= Len(streams) /\ (StreamTimeout(s) \/ StreamTimeoutCleanup(s)))

SpecSweep == Init /\ [][NextSweep]_vars /\ SweepFairness

(* ------------------------------- claims -------------------------------- *)
AllItems(r) == locks[r].got \o locks[r].queue
Count(seq, x) == Cardinality({i \in 1..Len(seq) : seq[i] = x})

\* C1: for every TaskLock, the actions returned by get_queue followed by the
\* actions still queued are exactly the actions put on it, each once and in
\* the order of the put_queue calls.
C1_Fifo ==
    \A r \in Refs :
        /\ Len(AllItems(r)) = locks[r].nput
        /\ \A i \in 1..Len(AllItems(r)) : AllItems(r)[i].n = i

\* two actions were put on one session and both were returned, in order
C1_Witness ==
    \E r \in Refs : /\ Len(locks[r].got) = 2
                    /\ locks[r].got[1].n = 1
                    /\ locks[r].got[2].n = 2

\* C2: every action a TaskLock holds or has returned from get_queue was
\* addressed to that TaskLock's own session id: no action crosses sessions.
C2_NoCrossDelivery ==
    \A r \in Refs : \A i \in 1..Len(AllItems(r)) : AllItems(r)[i].to = locks[r].id

\* two sessions with different ids have each returned an action
C2_Witness ==
    \E r1, r2 \in Refs : /\ locks[r1].id # locks[r2].id
                         /\ locks[r1].got # <<>>
                         /\ locks[r2].got # <<>>

\* C3: a registered id maps to one TaskLock of that id; create_task_lock on
\* a present id raises "Task already exists" and changes neither the registry
\* nor any TaskLock; delete_task_lock on an absent id raises "Task not found"
\* and changes neither.
C3_Registry ==
    /\ [](\A id \in Ids : Live(id) =>
            /\ task_locks[id] \in Refs
            /\ locks[task_locks[id]].id = id)
    /\ [][\A id \in Ids :
            /\ (Live(id) /\ CreateTaskLock(id)) =>
                  /\ resp'.exc = "Task already exists"
                  /\ UNCHANGED <<task_locks, locks>>
            /\ (~Live(id) /\ delete_task_lock(id)) =>
                  /\ dels'[Len(dels')].exc = "Task not found"
                  /\ UNCHANGED <<task_locks, locks>>]_vars

\* create_task_lock has just raised on a session that holds actions, after a
\* delete_task_lock of an absent id raised
C3_Witness ==
    /\ resp.op = "create_task_lock"
    /\ resp.exc = "Task already exists"
    /\ Live(resp.id)
    /\ locks[task_locks[resp.id]].queue # <<>>
    /\ \E i \in 1..Len(dels) : dels[i].exc = "Task not found"

\* C6: one SSE stream calls the session teardown (_cleanup_task_lock_safe)
\* at most once, whichever of timeout, cancellation and exception occurs.
C6_TeardownAtMostOnce ==
    \A s \in 1..Len(streams) : streams[s].calls <= 1

\* one stream ended by its timeout and another by cancellation, each having
\* called the teardown once
C6_Witness ==
    \E s1, s2 \in 1..Len(streams) :
        /\ streams[s1].pc = "ended" /\ streams[s1].reason = "TIMEOUT"
        /\ streams[s1].calls = 1
        /\ streams[s2].pc = "cancelled" /\ streams[s2].calls = 1

\* C9: a human-input channel never holds more than one reply, and the replies
\* it accepted are exactly the replies consumed followed by the reply it
\* holds: a put on a full channel waits, it neither overwrites nor completes.
C9_CapacityOne ==
    \A c \in 1..Len(chans) :
        /\ Len(chans[c].q) <= 1
        /\ chans[c].accepted = chans[c].consumed \o chans[c].q

\* a put that had to wait completed after the earlier reply was consumed
C9_Witness ==
    \E p \in 1..Len(putters) :
        /\ putters[p].pc = "done"
        /\ Len(chans[putters[p].chan].consumed) >= 1
        /\ Len(chans[putters[p].chan].accepted) = 2

C4_TimeoutThenGone ==
    \A s \in 1..Len(streams) :
        (streams[s].pc = "ended" /\ streams[s].reason = "TIMEOUT") =>
            /\ Count(streams[s].out, "timeout") = 1
            /\ streams[s].out[Len(streams[s].out)] = "timeout"
            /\ streams[s].gone

\* C5: a stream that was cancelled while waiting has re-raised the
\* cancellation after calling the teardown once, and at that point the
\* session id is no longer in the registry.
C5_CancelTearsDown ==
    \A s \in 1..Len(streams) :
        streams[s].pc = "cancelled" => (streams[s].calls = 1 /\ streams[s].gone)

\* C7: a delete_task_lock that runs after or during another delete of the
\* same session id does not raise, and the working directory of a TaskLock
\* is removed at most once.
C7_DoubleDeleteQuiet ==
    /\ \A i, j \in 1..Len(dels) :
          (i < j /\ dels[i].id = dels[j].id) =>
              dels[j].exc \notin {"Task not found", "KeyError"}
    /\ \A r \in Refs : locks[r].rmtrees <= 1

\* C8: while a delete_task_lock still has teardown steps to run (it awaits
\* a background task) the session it tears down is in the registry, and the
\* step that removes a registry entry leaves that TaskLock without tracked
\* tasks and toolkits, the project without OAuth state, and the credentials
\* and working directories of the TaskLock removed.
C8_TeardownBeforeRemoval ==
    /\ [](\A i \in 1..Len(dels) :
            dels[i].pc = "await" => task_locks[dels[i].id] = dels[i].lock)
    /\ [][\A id \in Ids :
            (Live(id) /\ ~Live(id)') =>
               LET L == task_locks[id] IN
               /\ locks'[L].background_tasks = {}
               /\ locks'[L].registered_toolkits = <<>>
               /\ id \notin oauth'
               /\ \A d \in fs' : ~(d.proj = locks[L].file_save_path.proj
                                   /\ d.task = locks[L].file_save_path.task)]_vars

C12_SupplementOnlyWhenDone ==
    [][(resp'.op = "supplement" /\ Live(resp'.id)) =>
          LET L == task_locks[resp'.id] IN
          IF locks[L].status = "done"
          THEN /\ resp'.exc = "none" /\ resp'.code = 201
               /\ locks'[L].queue = Append(locks[L].queue,
                                           Item("supplement", resp'.id, locks[L]))
               /\ locks'[L].status = "done"
          ELSE /\ resp'.exc = "UserException"
               /\ locks' = locks]_vars

\* a supplement request was refused on a session that is processing
C12_Witness ==
    /\ resp.op = "supplement" /\ resp.exc = "UserException"
    /\ Live(resp.id)
    /\ locks[task_locks[resp.id]].status = "processing"

\* C13: a stop request answers 204 and raises nothing; it never changes the
\* registry or creates a TaskLock; on a live session it appends exactly one
\* stop action to that session's queue, and on a missing session it changes
\* nothing.
C13_StopAlways204 ==
    [][resp'.op = "stop" =>
          /\ resp'.code = 204 /\ resp'.exc = "none"
          /\ task_locks' = task_locks
          /\ Len(locks') = Len(locks)
          /\ IF Live(resp'.id)
             THEN LET L == task_locks[resp'.id] IN
                  /\ locks'[L].queue = Append(locks[L].queue,
                                              Item("stop", resp'.id, locks[L]))
                  /\ \A r \in Refs \ {L} : locks'[r] = locks[r]
             ELSE locks' = locks]_vars

\* a stop request was answered 204 for a session that had existed and is gone
C13_Witness ==
    /\ resp.op = "stop" /\ resp.code = 204
    /\ ~Live(resp.id)
    /\ \E r \in Refs : locks[r].id = resp.id

\* C14: a request of improve, supplement, human-reply, install-mcp, add-task,
\* remove-task or skip-task for a session id that is not in the registry is
\* answered 404 and changes no TaskLock.
C14_UnknownIdIs404 ==
    [][(/\ resp'.op \in {"improve", "supplement", "human_reply", "install_mcp",
                         "add_task", "remove_task", "skip_task"}
        /\ ~Live(resp'.id))
       => (resp'.code = 404 /\ locks' = locks)]_vars

\* the delete_task_lock activations whose TaskLock.cleanup() returns in this step
CleanupReturns ==
    {i \in 1..Len(dels') :
        /\ dels'[i].pc = "returned" \/ (dels'[i].pc = "raised" /\ dels'[i].exc = "KeyError")
        /\ i > Len(dels) \/ dels[i].pc \in {"start", "await"}}

\* C15: when TaskLock.cleanup() returns, the TaskLock's background_tasks and
\* registered_toolkits are empty and every task that was tracked on that
\* TaskLock is finished (completed, cancelled or failed), none still running.
C15_CleanupLeavesNothingRunning ==
    [][\A i \in CleanupReturns :
          LET L == dels'[i].lock IN
          /\ locks'[L].background_tasks = {}
          /\ locks'[L].registered_toolkits = <<>>
          /\ \A t \in 1..Len(tasks') :
                tasks'[t].lock = L => tasks'[t].state \in {"ok", "cancelled", "failed"}]_vars

\* C16: no toolkit instance appears twice in a registered_toolkits list, and
\* a register_toolkit call leaves the instance in the list exactly once,
\* keeps every entry that was there, in place, and adds at most one entry.
C16_RegisterOnce ==
    /\ [](\A r \in Refs : \A k \in Toolkits :
             Count(locks[r].registered_toolkits, k) <= 1)
    /\ [][\A id \in Ids, k \in Toolkits :
             RegisterToolkit(id, k) =>
                LET old == locks[task_locks[id]].registered_toolkits
                    new == locks'[task_locks[id]].registered_toolkits IN
                /\ Count(new, k) = 1
                /\ Len(new) = IF InList(k, old) THEN Len(old) ELSE Len(old) + 1
                /\ \A i \in 1..Len(old) : new[i] = old[i]]_vars

\* three registrations of two instances, one of them a repeat, left two entries
C16_Witness ==
    \E r \in Refs : /\ locks[r].regs = 3
                    /\ Len(locks[r].registered_toolkits) = 2

\* the delete_task_lock activations that found the session and end in this
\* step, by returning or by raising
TeardownEnds ==
    {i \in 1..Len(dels') :
        /\ dels'[i].pc \in {"returned", "raised"}
        /\ dels'[i].exc # "Task not found"
        /\ i > Len(dels) \/ dels[i].pc \in {"start", "await"}}

\* C17: a session teardown that ends has invoked the cleanup of every toolkit
\* registered on its TaskLock exactly once, and of no other toolkit, however
\* many times the toolkit was registered.
C17_ToolkitCleanedOnce ==
    [][\A i \in TeardownEnds : \A k \in Toolkits :
          cleanups'[k] - cleanups[k] =
             IF InList(k, locks[dels'[i].lock].registered_toolkits) THEN 1 ELSE 0]_vars

\* C18: a teardown that has started on a session in the registry ends, also
\* when one of its steps failed, with that session's registry entry removed.
C18_TeardownCompletes ==
    \A i \in 1..Len(dels) :
        (dels[i].pc \in {"returned", "raised"} /\ dels[i].exc # "Task not found") =>
            task_locks[dels[i].id] # dels[i].lock

\* C19: when a teardown of a session returns, no directory of the tree keyed
\* by the session id is left on disk, the credentials subdirectory included.
C19_DirsGoneAfterTeardown ==
    [][\A i \in 1..Len(dels') :
          (dels'[i].pc = "returned" /\ (i > Len(dels) \/ dels[i].pc # "returned"))
          => \A d \in fs' : d.proj # dels'[i].id]_vars

StaleSession(id) == Live(id) /\ Stale(locks[task_locks[id]])

\* C20: a session in the registry whose last_accessed lies more than 4 hours
\* back is eventually removed from the registry.
C20_StaleEventuallyTornDown ==
    /\ StaleSession("s1") ~> ~Live("s1")
    /\ StaleSession("s2") ~> ~Live("s2")

\* C21: an event that the engine or a toolkit emits for a session that is no
\* longer registered raises nothing into the running tool call.
TornDown(id) == ~Live(id) /\ \E r \in Refs : locks[r].id = id

C21_EmitAfterTeardownRaisesNothing ==
    [][(resp'.op \in {"async_wrapper", "sync_wrapper", "update_terminal_output"}
          /\ TornDown(resp'.id))
       => resp'.exc = "none"]_vars

\* the step is a POST /chat that went through, for the session of its stream
Posted(id) ==
    /\ Len(streams') = Len(streams) + 1
    /\ locks'[streams'[Len(streams')].lock].id = id

\* C22: POST /chat never ends with the already-exists error of the registry.
\* For a registered id it uses the registered TaskLock, left as it was but
\* for the request's own path and action (same status, history, actions
\* returned and actions queued before); for an absent id it registers a fresh
\* TaskLock; in both cases it enqueues its action on the TaskLock registered
\* for the id and touches no other TaskLock.
C22_GetOrCreate ==
    [][/\ resp'.op # "post"
       /\ \A id \in Ids : Posted(id) =>
            LET L == streams'[Len(streams')].lock IN
            /\ task_locks'[id] = L
            /\ \A r \in Refs \ {L} : locks'[r] = locks[r]
            /\ locks'[L].queue[Len(locks'[L].queue)].action = "improve"
            /\ IF Live(id)
               THEN /\ L = task_locks[id]
                    /\ task_locks' = task_locks
                    /\ Len(locks') = Len(locks)
                    /\ locks'[L].queue = Append(locks[L].queue, Item("improve", id, locks[L]))
                    /\ locks'[L].got = locks[L].got
                    /\ locks'[L].status = locks[L].status
                    /\ locks'[L].conversation_history = locks[L].conversation_history
               ELSE /\ L = Len(locks) + 1
                    /\ Len(locks') = Len(locks) + 1
                    /\ task_locks' = [task_locks EXCEPT ![id] = L]
                    /\ Len(locks'[L].queue) = 1
                    /\ locks'[L].status = "confirming"
                    /\ locks'[L].conversation_history = <<>>]_vars

\* two requests for one id share one TaskLock, which holds the actions of
\* both and the status and history that the engine gave it
C22_Witness ==
    /\ Len(streams) = 2
    /\ streams[1].lock = streams[2].lock
    /\ Len(locks) = 1
    /\ locks[1].nput = 2
    /\ locks[1].status = "processing"
    /\ locks[1].conversation_history # <<>>

\* the kinds of action that each fire-and-forget request enqueues
ControlKinds ==
    [start |-> {"start"}, put |-> {"update_task"}, take_control |-> {"pause", "resume"},
     add_agent |-> {"new_agent"}, stop |-> {"stop"}, install_mcp |-> {"install_mcp"},
     add_task |-> {"add_task"}, remove_task |-> {"remove_task"},
     skip_task |-> {"skip_task"}]

\* C23: a fire-and-forget control request on a registered session raises
\* nothing and appends one action of its kind behind the actions already
\* queued; the status, the conversation history and every other field of
\* the TaskLock but its access time, the registry, the other TaskLocks and
\* the streams, tasks and directories stay as they were.
C23_ControlOnlyEnqueues ==
    [][(resp'.op \in DOMAIN ControlKinds /\ Live(resp'.id)) =>
          LET L == task_locks[resp'.id]
              q == locks'[L].queue IN
          /\ resp'.exc = "none"
          /\ Len(q) = Len(locks[L].queue) + 1
          /\ SubSeq(q, 1, Len(q) - 1) = locks[L].queue
          /\ q[Len(q)].action \in ControlKinds[resp'.op]
          /\ q[Len(q)].to = resp'.id
          /\ locks'[L] = [locks[L] EXCEPT !.queue = q, !.nput = @ + 1,
                                          !.last_accessed = now]
          /\ \A r \in Refs \ {L} : locks'[r] = locks[r]
          /\ UNCHANGED <<task_locks, chans, tasks, streams, putters, fs, oauth, dels,
                         cleanups, now, environ, sweep, oauth_states, oauth_flows>>]_vars

\* a stop was queued behind an earlier action of a session that is still
\* processing, with its history
C23_Witness ==
    \E r \in Refs :
        /\ Len(locks[r].queue) = 2
        /\ locks[r].queue[1].action = "start"
        /\ locks[r].queue[2].action = "stop"
        /\ locks[r].status = "processing"
        /\ locks[r].conversation_history # <<>>
        /\ resp.op = "stop"

\* C24: the working directory resolved for a session is the override path
\* that an improve request with a task id stored on its TaskLock, when there
\* is one, and otherwise the path derived from the project id and task id of
\* the chat; an improve request with task id t makes it file_save_path(id, t).
C24_WorkingDirectory ==
    [][/\ resp'.op = "get_working_directory" =>
            LET L == task_locks[resp'.id] IN
            resp'.ret.dir =
                IF L # NoLock /\ locks[L].new_folder_path # NoPath
                THEN locks[L].new_folder_path
                ELSE file_save_path(resp'.id, resp'.ret.options)
       /\ resp'.op = "get_working_directory_from_task_lock" =>
            LET lk == locks[resp'.ret.lock] IN
            /\ resp'.ret.dir =
                  IF lk.new_folder_path # NoPath THEN lk.new_folder_path
                  ELSE lk.file_save_path
            /\ lk.file_save_path \in
                  {NoPath} \cup {file_save_path(lk.id, t) : t \in TaskIds}
       /\ \A id \in Ids, t \in NewTaskIds \ {""} :
            (/\ resp'.op = "improve" /\ resp'.exc = "none" /\ resp'.id = id
             /\ locks'[task_locks[id]] = improve_lock(locks[task_locks[id]], id, t))
            => /\ get_working_directory_from_task_lock(locks'[task_locks[id]])
                     = file_save_path(id, t)
               /\ \A t0 \in TaskIds :
                     get_working_directory_result(id, t0)' = file_save_path(id, t)]_vars

\* a toolkit resolved the override path of task t2 on a session whose chat
\* was started for task t1
C24_Witness ==
    /\ resp.op = "get_working_directory_from_task_lock"
    /\ resp.ret.dir = file_save_path("s1", "t2")
    /\ locks[resp.ret.lock].file_save_path = file_save_path("s1", "t1")

SessionSupplies(params) ==
    \/ params.google_api_key # "" /\ params.search_engine_id # ""
    \/ params.cloud_api_key # ""

\* C25: when the session supplies a search credential and the process
\* environment holds search values too, search_google sends the session's
\* values and none of the environment.
C25_SessionCredentialWins ==
    (/\ resp.op = "search_google"
     /\ SessionSupplies(resp.ret.params)
     /\ environ # NoEnv)
    => /\ resp.ret.used.route # "ValueError"
       /\ resp.ret.used.key = "s"
       /\ resp.ret.used.cx \in {"", "s"}

\* what the handlers and toolkits of session id observe of its paths and
\* credentials
Observed(tl, lks, id) ==
    IF tl[id] = NoLock THEN <<>>
    ELSE <<lks[tl[id]].file_save_path, lks[tl[id]].new_folder_path,
           lks[tl[id]].creds_params>>

Undisturbed(S) == S.pc \in {"wait", "ended"} /\ S.reason \in {"", "END"}

\* C28: as long as no timeout and no cancellation occurs, what the wrapper
\* has yielded is what the underlying stream has yielded, each event once
\* and in production order; once the underlying stream has ended the wrapper
\* yields nothing more.
C28_PassThrough ==
    [][\A s \in 1..Len(streams) :
          /\ Undisturbed(streams'[s]) =>
                streams'[s].out = SubSeq(EventNames, 1, streams'[s].made)
          /\ streams[s].pc = "ended" => streams'[s].out = streams[s].out]_vars

\* a stream yielded two events and then ended
C28_Witness ==
    \E s \in 1..Len(streams) :
        /\ streams[s].pc = "ended" /\ streams[s].reason = "END"
        /\ streams[s].made = 2
        /\ streams[s].out = <<"e1", "e2">>

\* C29: the wrapper yields its timeout event only when the time since the
\* last event it delivered (since its start when it has delivered none) has
\* reached the idle timeout, so a stream whose events follow each other at
\* shorter gaps is not timed out.
C29_IdleClockResets ==
    [][\A s \in 1..Len(streams) :
          (/\ Len(streams'[s].out) = Len(streams[s].out) + 1
           /\ streams'[s].out[Len(streams'[s].out)] = "timeout")
          => (now - streams[s].delivered_at) * TickSeconds >= SSE_TIMEOUT_SECONDS]_vars

\* a stream that opened at time 0 (as all streams of SpecSse do) has been
\* open for longer than the idle timeout, has delivered its events at
\* shorter gaps and is still waiting, not timed out
C29_Witness ==
    \E s \in 1..Len(streams) :
        /\ streams[s].pc = "wait"
        /\ streams[s].out = <<"e1", "e2">>
        /\ now * TickSeconds > SSE_TIMEOUT_SECONDS
        /\ (now - streams[s].delivered_at) * TickSeconds < SSE_TIMEOUT_SECONDS

\* C30: no TaskLock tracks a task that has completed, be it by success,
\* failure or cancellation: its done-callback took it out of background_tasks.
C30_NoFinishedTaskTracked ==
    \A r \in Refs : \A t \in locks[r].background_tasks : ~TaskDone(t)

\* a TaskLock had tracked two tasks; one succeeded, the other was cancelled
\* or failed, and none of them is tracked any more
C30_Witness ==
    /\ Len(tasks) = 2
    /\ tasks[1].lock = tasks[2].lock
    /\ tasks[1].state = "ok"
    /\ tasks[2].state \in {"cancelled", "failed"}
    /\ locks[tasks[1].lock].background_tasks = {}
    /\ Live(locks[tasks[1].lock].id)


\* C31: the last_accessed of a TaskLock never decreases and is never earlier
\* than its created_at, and every put_queue and every get_queue call on the
\* TaskLock sets it to the time of the call.
C31_LastAccessed ==
    /\ [](\A r \in Refs : locks[r].last_accessed >= locks[r].created_at)
    /\ [][\A r \in Refs :
            /\ locks'[r].last_accessed >= locks[r].last_accessed
            /\ (\/ locks'[r].nput > locks[r].nput
                \/ Len(locks'[r].got) > Len(locks[r].got)
                \/ (resp'.op = "get_queue" /\ locks'[r] # locks[r]))
               => locks'[r].last_accessed = now]_vars

\* a session created at time 0 was put on at a later time and its action was
\* taken at a still later time, which is its last_accessed
C31_Witness ==
    \E r \in Refs :
        /\ locks[r].created_at = 0
        /\ locks[r].got # <<>>
        /\ locks[r].last_accessed = now
        /\ now >= 2
        /\ Live(locks[r].id)

IsPrefix(a, b) == Len(a) <= Len(b) /\ SubSeq(b, 1, Len(a)) = a

\* C32: no step changes or reorders the entries that a TaskLock's
\* conversation_history holds: it stays as it is or gains one entry at its
\* end, for every TaskLock and for every session id that stays registered,
\* also when the step completes a task or continues after a completion.
C32_HistoryAppendOnly ==
    [][/\ \A r \in Refs :
            /\ IsPrefix(locks[r].conversation_history, locks'[r].conversation_history)
            /\ Len(locks'[r].conversation_history)
                   <= Len(locks[r].conversation_history) + 1
       /\ \A id \in Ids :
            (Live(id) /\ Live(id)') =>
                IsPrefix(locks[task_locks[id]].conversation_history,
                         locks'[task_locks'[id]].conversation_history)]_vars

\* a session that completed a task and was continued is processing again
\* and holds three entries, of both roles
C32_Witness ==
    \E r \in Refs :
        /\ locks[r].status = "processing"
        /\ locks[r].last_task_result = "result"
        /\ Len(locks[r].conversation_history) = 3
        /\ locks[r].conversation_history[1].role
              # locks[r].conversation_history[3].role

StatusEdges ==
    {<<"confirming", "processing">>, <<"processing", "done">>, <<"done", "confirming">>}

\* the step is a call of _cleanup_task_lock_safe by a stream that holds r
MarkedByTeardown(r) ==
    \E s \in 1..Len(streams) :
        streams[s].lock = r /\ streams'[s].calls = streams[s].calls + 1

\* C33 (as stated): a TaskLock starts at confirming, and a step that changes
\* its status takes it from confirming to processing, from processing to
\* done or from done to confirming.
C33_OnlyThreeEdges ==
    [][/\ \A r \in 1..Len(locks') : r \notin Refs => locks'[r].status = "confirming"
       /\ \A r \in Refs :
             locks'[r].status # locks[r].status =>
                 <<locks[r].status, locks'[r].status>> \in StatusEdges]_vars

\* C33 (amended): a TaskLock starts at confirming, and a step that changes
\* its status takes one of the three edges or is the teardown of an SSE
\* stream of that TaskLock, which marks it done whatever its status was.
C33_EdgesOrTeardown ==
    [][/\ \A r \in 1..Len(locks') : r \notin Refs => locks'[r].status = "confirming"
       /\ \A r \in Refs :
             locks'[r].status # locks[r].status =>
                 \/ <<locks[r].status, locks'[r].status>> \in StatusEdges
                 \/ locks'[r].status = "done" /\ MarkedByTeardown(r)]_vars

\* a stream was cancelled and its teardown marked done a session that the
\* engine had not completed
C33_Witness ==
    \E s \in 1..Len(streams) :
        /\ streams[s].calls = 1
        /\ streams[s].reason = "CANCELLED"
        /\ locks[streams[s].lock].status = "done"
        /\ locks[streams[s].lock].last_task_result = ""

ToolCalls(r, states) ==
    Cardinality({t \in 1..Len(tasks) :
                    tasks[t].kind = "tool" /\ tasks[t].lock = r /\ tasks[t].state \in states})

CountAction(seq, kind) == Cardinality({i \in 1..Len(seq) : seq[i].action = kind})

\* C34: on every TaskLock, the wrapped tool calls that have put their
\* activate_toolkit event and have left the wrapper, by a return or by an
\* exception, have each put one deactivate_toolkit event on that TaskLock.
C34_DeactivateOnEveryExit ==
    \A r \in Refs :
        /\ CountAction(AllItems(r), "activate_toolkit")
              = ToolCalls(r, {"pending", "ok", "failed", "cancelled"})
        /\ CountAction(AllItems(r), "deactivate_toolkit")
              = ToolCalls(r, {"ok", "failed", "cancelled"})

\* C35: a step of a request handler takes no task that is still running out
\* of the background_tasks of a TaskLock: what was tracked and unfinished
\* before a request is tracked after it.
C35_HandlersKeepRunningTasksTracked ==
    [][resp'.op # "none" =>
          \A r \in Refs : \A t \in locks[r].background_tasks :
              ~TaskDone(t) => t \in locks'[r].background_tasks]_vars

\* the delete_task_lock activations that remove the registry entry in this step
Removing ==
    {i \in 1..Len(dels') :
        /\ dels'[i].pc = "returned"
        /\ i > Len(dels) \/ dels[i].pc # "returned"}

\* C36: when the teardown called by an SSE stream removes a session from
\* the registry, no stream opened by a later POST /chat on that session id is
\* still open and waiting for the session's events.
C36_TeardownSparesLaterStream ==
    [][\A i \in Removing :
          dels'[i].caller # 0 =>
             \A s \in 1..Len(streams) :
                (s > dels'[i].caller /\ locks[streams[s].lock].id = dels'[i].id)
                   => streams[s].pc # "wait"]_vars

C38_PendingReplyReachable ==
    \A c \in 1..Len(chans) :
        chans[c].q # <<>> =>
            \E r \in Refs, a \in Agents : locks[r].human_input[a] = c

\* the step is made by the thread of flow f
FlowStep(f) == resp'.op = "auth_flow" /\ resp'.ret.flow = f

\* the state that the manager holds under the key of flow f
Current(f) == oauth_states[state_key(oauth_flows[f].project, oauth_flows[f].provider)]

\* C39: a step of the thread of a flow that was cancelled and whose key
\* holds the state of a newer flow leaves the status, the error and the
\* result of the newer state as they were.
C39_SupersededFlowIsSilent ==
    [][\A f \in 1..Len(oauth_flows) :
          (/\ FlowStep(f)
           /\ oauth_flows[f].cancelled
           /\ Current(f) \notin {NoState, f})
          => /\ oauth_flows'[Current(f)].status = oauth_flows[Current(f)].status
             /\ oauth_flows'[Current(f)].error = oauth_flows[Current(f)].error
             /\ oauth_flows'[Current(f)].result = oauth_flows[Current(f)].result]_vars

\* C40: clear_project(p) removes the states of project p, cancelling those
\* that are pending or authorizing, and leaves every key of another project
\* with its state, unchanged.
C40_ClearProjectExact ==
    [][resp'.op = "clear_project" =>
          \A k \in OAuthKeys :
              oauth_states[k] # NoState =>
                 LET f == oauth_states[k] IN
                 IF oauth_flows[f].project = resp'.ret.project
                 THEN /\ oauth_states'[k] = NoState
                      /\ Active(oauth_flows[f]) => oauth_flows'[f].cancelled
                 ELSE /\ oauth_states'[k] = f
                      /\ oauth_flows'[f] = oauth_flows[f]]_vars
====
